---------------------------- MODULE Spec2Model ----------------------------
(***************************************************************************)
(* A model of src/src/Abi.tsx, the AbiDynamicUI component: the wallet      *)
(* session it keeps (provider, signer, account, chainId, localStorage),    *)
(* the ABI catalog and the parameter field map, and callFunction, the      *)
(* dispatcher that coerces the fields, calls the contract through a handle *)
(* fetched from the wallet, and reports the outcome.                       *)
(*                                                                         *)
(* Text is a sequence of one-character strings, so that trim, includes,    *)
(* startsWith and toLowerCase are computed and not assumed.                *)
(***************************************************************************)
EXTENDS Integers, Sequences, FiniteSets, TLC

(***************************************************************************)
(* Bounds of the model.                                                    *)
(***************************************************************************)
\* invocations of callFunction in one run (each slot is used once)
MaxInv == 2
\* user gestures on the page in one run (clicks and edits)
MaxOps == 5
\* changes of network made in the wallet in one run
MaxSwitches == 1
\* changes of account made in the wallet in one run
MaxNotes == 2
\* the handlers one event may have while the wallet still loses subscriptions
MaxHandlers == 2

(***************************************************************************)
(* Text helpers.                                                           *)
(***************************************************************************)
NULL == "null"

Min(a, b) == IF a < b THEN a ELSE b

Upper == <<"A","B","C","D","E","F","G","H","I","J","K","L","M",
           "N","O","P","Q","R","S","T","U","V","W","X","Y","Z">>

Lower == <<"a","b","c","d","e","f","g","h","i","j","k","l","m",
           "n","o","p","q","r","s","t","u","v","w","x","y","z">>

\* String.prototype.toLowerCase, one character
lowerChar(c) ==
    IF \E k \in 1..26 : Upper[k] = c
    THEN Lower[CHOOSE k \in 1..26 : Upper[k] = c]
    ELSE c

\* String.prototype.toLowerCase
toLowerCase(s) == [k \in 1..Len(s) |-> lowerChar(s[k])]

\* String.prototype.startsWith
startsWith(s, p) == Len(p) <= Len(s) /\ SubSeq(s, 1, Len(p)) = p

\* String.prototype.includes
includes(s, sub) ==
    \E k \in 0..(Len(s) - Len(sub)) : SubSeq(s, k + 1, k + Len(sub)) = sub

\* the white space String.prototype.trim removes
isSpace(c) == c \in {" ", "\t", "\n"}

\* String.prototype.trim
trim(s) ==
    IF \A k \in 1..Len(s) : isSpace(s[k]) THEN <<>>
    ELSE LET first == CHOOSE k \in 1..Len(s) :
                         ~isSpace(s[k]) /\ \A j \in 1..(k - 1) : isSpace(s[j])
             last  == CHOOSE k \in 1..Len(s) :
                         ~isSpace(s[k]) /\ \A j \in (k + 1)..Len(s) : isSpace(s[j])
         IN  SubSeq(s, first, last)

\* Array.prototype.join(",") over texts
RECURSIVE join(_)
join(ts) ==
    IF ts = <<>> THEN <<>>
    ELSE IF Len(ts) = 1 THEN ts[1]
    ELSE ts[1] \o <<",">> \o join(Tail(ts))

Digits == <<"0","1","2","3","4","5","6","7","8","9">>

isDigit(c) == \E k \in 1..10 : Digits[k] = c

digitVal(c) == (CHOOSE k \in 1..10 : Digits[k] = c) - 1

\* Number.prototype.toString(10) of a natural number
RECURSIVE natToText(_)
natToText(n) ==
    IF n < 10 THEN <<Digits[n + 1]>>
    ELSE natToText(n \div 10) \o <<Digits[(n % 10) + 1]>>


(***************************************************************************)
(* The text literals of the source.                                        *)
(***************************************************************************)
\* "uint"
TxtUint ==
    <<"u","i","n","t">>

\* "int"
TxtInt ==
    <<"i","n","t">>

\* "address"
TxtAddress ==
    <<"a","d","d","r","e","s","s">>

\* "bool"
TxtBool ==
    <<"b","o","o","l">>

\* "string"
TxtString ==
    <<"s","t","r","i","n","g">>

\* "bytes"
TxtBytes ==
    <<"b","y","t","e","s">>

\* "amount"
TxtAmount ==
    <<"a","m","o","u","n","t">>

\* "value"
TxtValue ==
    <<"v","a","l","u","e">>

\* "wad"
TxtWad ==
    <<"w","a","d">>

\* "qty"
TxtQty ==
    <<"q","t","y">>

\* "quantity"
TxtQuantity ==
    <<"q","u","a","n","t","i","t","y">>

\* "true"
TxtTrue ==
    <<"t","r","u","e">>

\* "1"
TxtOne ==
    <<"1">>

\* "yes"
TxtYes ==
    <<"y","e","s">>

\* "0xdac17f958d2ee523a2206206994597c13d831ec7"
UsdtAddressLower ==
    <<"0","x","d","a","c","1","7","f","9","5","8","d","2","e","e","5","2","3","a","2","2","0",
      "6","2","0","6","9","9","4","5","9","7","c","1","3","d","8","3","1","e","c","7">>

\* "0xdAC17F958D2ee523a2206206994597C13D831ec7"
UsdtPresetAddress ==
    <<"0","x","d","A","C","1","7","F","9","5","8","D","2","e","e","5","2","3","a","2","2","0",
      "6","2","0","6","9","9","4","5","9","7","C","1","3","D","8","3","1","e","c","7">>

\* "0x779877A7B0D9E8603169DdbD7836e478b4624789"
LinkPresetAddress ==
    <<"0","x","7","7","9","8","7","7","A","7","B","0","D","9","E","8","6","0","3","1","6","9",
      "D","d","b","D","7","8","3","6","e","4","7","8","b","4","6","2","4","7","8","9">>

\* "Please install MetaMask first"
MsgNoProvider ==
    <<"P","l","e","a","s","e"," ","i","n","s","t","a","l","l"," ","M","e","t","a","M","a","s",
      "k"," ","f","i","r","s","t">>

\* "Please connect wallet first"
MsgNotConnected ==
    <<"P","l","e","a","s","e"," ","c","o","n","n","e","c","t"," ","w","a","l","l","e","t"," ",
      "f","i","r","s","t">>

\* "Please enter contract address"
MsgNoAddress ==
    <<"P","l","e","a","s","e"," ","e","n","t","e","r"," ","c","o","n","t","r","a","c","t"," ",
      "a","d","d","r","e","s","s">>

\* "Empty value"
MsgEmptyValue ==
    <<"E","m","p","t","y"," ","v","a","l","u","e">>

\* "user rejected"
TxtUserRejected ==
    <<"u","s","e","r"," ","r","e","j","e","c","t","e","d">>

\* "User denied"
TxtUserDenied ==
    <<"U","s","e","r"," ","d","e","n","i","e","d">>

\* "insufficient funds"
TxtInsufficientFunds ==
    <<"i","n","s","u","f","f","i","c","i","e","n","t"," ","f","u","n","d","s">>

\* "network changed"
TxtNetworkChanged ==
    <<"n","e","t","w","o","r","k"," ","c","h","a","n","g","e","d">>

\* "NETWORK_ERROR"
TxtNetworkError ==
    <<"N","E","T","W","O","R","K","_","E","R","R","O","R">>

\* "wrong network"
TxtWrongNetwork ==
    <<"w","r","o","n","g"," ","n","e","t","w","o","r","k">>

\* "chain mismatch"
TxtChainMismatch ==
    <<"c","h","a","i","n"," ","m","i","s","m","a","t","c","h">>

\* "Call failed: "
TxtCallFailed ==
    <<"C","a","l","l"," ","f","a","i","l","e","d",":"," ">>

\* "..."
TxtEllipsis ==
    <<".",".",".">>

\* "balance"
TxtBalance ==
    <<"b","a","l","a","n","c","e">>

\* "supply"
TxtSupply ==
    <<"s","u","p","p","l","y">>

\* " (raw: "
TxtRawOpen ==
    <<" ","(","r","a","w",":"," ">>

\* "Function "
TxtFunction ==
    <<"F","u","n","c","t","i","o","n"," ">>

\* " result: "
TxtResult ==
    <<" ","r","e","s","u","l","t",":"," ">>

\* "Transaction sent, txHash: "
TxtTxSent ==
    <<"T","r","a","n","s","a","c","t","i","o","n"," ","s","e","n","t",","," ","t","x","H","a",
      "s","h",":"," ">>

\* "Transaction confirmed: blockNumber="
TxtTxConfirmed ==
    <<"T","r","a","n","s","a","c","t","i","o","n"," ","c","o","n","f","i","r","m","e","d",":",
      " ","b","l","o","c","k","N","u","m","b","e","r","=">>

\* ", status="
TxtStatus ==
    <<","," ","s","t","a","t","u","s","=">>

\* "ABI parsed successfully"
MsgParsed ==
    <<"A","B","I"," ","p","a","r","s","e","d"," ","s","u","c","c","e","s","s","f","u","l","l","y">>

\* "ABI parsing failed: "
TxtParseFailed ==
    <<"A","B","I"," ","p","a","r","s","i","n","g"," ","f","a","i","l","e","d",":"," ">>

\* "ABI is not an array"
MsgNotArray ==
    <<"A","B","I"," ","i","s"," ","n","o","t"," ","a","n"," ","a","r","r","a","y">>

\* "Connected: "
TxtConnected ==
    <<"C","o","n","n","e","c","t","e","d",":"," ">>

\* "Connection failed: "
TxtConnectionFailed ==
    <<"C","o","n","n","e","c","t","i","o","n"," ","f","a","i","l","e","d",":"," ">>

\* "Local connection disconnected"
MsgDisconnected ==
    <<"L","o","c","a","l"," ","c","o","n","n","e","c","t","i","o","n"," ","d","i","s","c","o",
      "n","n","e","c","t","e","d">>

\* "MetaMask or compatible wallet not detected"
MsgNoWallet ==
    <<"M","e","t","a","M","a","s","k"," ","o","r"," ","c","o","m","p","a","t","i","b","l","e",
      " ","w","a","l","l","e","t"," ","n","o","t"," ","d","e","t","e","c","t","e","d">>

\* "[object Object]"
TxtObjectObject ==
    <<"[","o","b","j","e","c","t"," ","O","b","j","e","c","t","]">>

\* "NaN"
TxtNaN ==
    <<"N","a","N">>

\* "function"
TxtFunctionType ==
    <<"f","u","n","c","t","i","o","n">>

\* "view"
TxtView ==
    <<"v","i","e","w">>

\* "pure"
TxtPure ==
    <<"p","u","r","e">>

(***************************************************************************)
(* Decimal numbers.  parseFloat reads a decimal numeral; the model keeps   *)
(* its digits (integer part ip, fraction part fp), so that a value above   *)
(* the machine integers is still computed.  The numerals of the model have *)
(* no exponent part.                                                       *)
(***************************************************************************)
NaN == [nan |-> TRUE, neg |-> FALSE, ip |-> <<>>, fp |-> <<>>]

\* the longest prefix of s made of digits
RECURSIVE digitPrefix(_)
digitPrefix(s) ==
    IF s = <<>> \/ ~isDigit(Head(s)) THEN <<>>
    ELSE <<Head(s)>> \o digitPrefix(Tail(s))

\* s without its leading white space
RECURSIVE trimStart(_)
trimStart(s) ==
    IF s # <<>> /\ isSpace(Head(s)) THEN trimStart(Tail(s)) ELSE s

\* s without its leading zeros (the empty text for zero)
RECURSIVE stripZeros(_)
stripZeros(s) ==
    IF s # <<>> /\ Head(s) = "0" THEN stripZeros(Tail(s)) ELSE s

isZeroDigits(s) == stripZeros(s) = <<>>

\* the global parseFloat: white space, a sign, digits, a point, digits; what
\* follows the numeral is ignored, and a text with no numeral gives NaN
parseFloat(raw) ==
    LET t    == trimStart(raw)
        sgn  == t # <<>> /\ Head(t) \in {"+", "-"}
        u    == IF sgn THEN Tail(t) ELSE t
        ip   == digitPrefix(u)
        rest == SubSeq(u, Len(ip) + 1, Len(u))
        fp   == IF rest # <<>> /\ Head(rest) = "." THEN digitPrefix(Tail(rest))
                ELSE <<>>
    IN  IF ip = <<>> /\ fp = <<>> THEN NaN
        ELSE [nan |-> FALSE, neg |-> sgn /\ Head(t) = "-", ip |-> ip, fp |-> fp]

\* x > 0 (false for NaN)
isPositive(x) == ~x.nan /\ ~x.neg /\ ~(isZeroDigits(x.ip) /\ isZeroDigits(x.fp))

\* x < n for a power of ten n = 10^k (false for NaN): the integer part has at
\* most k digits
lessThanPow10(x, k) ==
    ~x.nan /\ (Len(stripZeros(x.ip)) <= k
               \/ (x.neg /\ ~(isZeroDigits(x.ip) /\ isZeroDigits(x.fp))))

\* the digits of n + 1
RECURSIVE incDigits(_)
incDigits(s) ==
    IF s = <<>> THEN <<"1">>
    ELSE LET last == s[Len(s)]
             init == SubSeq(s, 1, Len(s) - 1)
         IN  IF last = "9" THEN incDigits(init) \o <<"0">>
             ELSE init \o <<Digits[digitVal(last) + 2]>>

(***************************************************************************)
(* Doubles.  A natural number above the machine integers is a sequence of  *)
(* limbs in base 8192, lowest first, with no leading zero limb; a double   *)
(* is m * 2^e with m below 2^53, m such a number and e an integer.         *)
(* Rounding is to nearest, ties to even.  The numerals of the model have   *)
(* no exponent part and stay within the normal range.                      *)
(***************************************************************************)
\* the bits of a double's significand
MantissaBits == 53

\* F of the value v
bind(v, F(_)) == F(v)

\* the limbs of the number whose limbs-to-be are cols, with carry c
RECURSIVE carry(_, _)
carry(cols, c) ==
    IF cols = <<>>
    THEN IF c = 0 THEN <<>> ELSE <<c % 8192>> \o carry(<<>>, c \div 8192)
    ELSE <<(Head(cols) + c) % 8192>> \o carry(Tail(cols), (Head(cols) + c) \div 8192)

\* limbs without leading zero limbs
RECURSIVE trimLimbs(_)
trimLimbs(a) ==
    IF a # <<>> /\ a[Len(a)] = 0 THEN trimLimbs(SubSeq(a, 1, Len(a) - 1)) ELSE a

\* a * n + c for small n and c
mulSmall(a, n, c) == trimLimbs(carry([k \in 1..Len(a) |-> a[k] * n], c))

\* the sum of a[i] * b[k + 1 - i] over the i from lo on
RECURSIVE column(_, _, _, _)
column(a, b, k, lo) ==
    IF lo > Len(a) \/ lo > k THEN 0
    ELSE (IF k + 1 - lo <= Len(b) THEN a[lo] * b[k + 1 - lo] ELSE 0)
         + column(a, b, k, lo + 1)

\* a * b
bigMul(a, b) ==
    trimLimbs(carry([k \in 1..(Len(a) + Len(b)) |-> column(a, b, k, 1)], 0))

\* quotient and remainder of a by a small n, from limb i down, r carried in
RECURSIVE divFrom(_, _, _, _)
divFrom(a, n, i, r) ==
    IF i = 0 THEN [q |-> <<>>, r |-> r]
    ELSE LET t    == r * 8192 + a[i]
             rest == divFrom(a, n, i - 1, t % n)
         IN  [q |-> Append(rest.q, t \div n), r |-> rest.r]

divSmall(a, n) ==
    LET d == divFrom(a, n, Len(a), 0)
    IN  [q |-> trimLimbs(d.q), r |-> d.r]

\* 10^k and the number of a numeral, for at most four digits
RECURSIVE tenTo(_)
tenTo(k) == IF k = 0 THEN 1 ELSE 10 * tenTo(k - 1)

RECURSIVE smallNat(_)
smallNat(ds) ==
    IF ds = <<>> THEN 0
    ELSE 10 * smallNat(SubSeq(ds, 1, Len(ds) - 1)) + digitVal(ds[Len(ds)])

\* the number a decimal numeral denotes, four digits at a time
RECURSIVE fromDigits(_)
fromDigits(ds) ==
    IF ds = <<>> THEN <<>>
    ELSE LET n == IF Len(ds) < 4 THEN Len(ds) ELSE 4
         IN  mulSmall(fromDigits(SubSeq(ds, 1, Len(ds) - n)), tenTo(n),
                      smallNat(SubSeq(ds, Len(ds) - n + 1, Len(ds))))

\* the decimal numeral of a number (the empty text for zero), four digits at
\* a time
RECURSIVE toDigits(_)
toDigits(a) ==
    IF a = <<>> THEN <<>>
    ELSE IF Len(a) = 1 /\ a[1] < 10000 THEN natToText(a[1])
    ELSE LET d == divSmall(a, 10000)
             t == natToText(d.r)
         IN  toDigits(d.q) \o [k \in 1..(4 - Len(t)) |-> "0"] \o t

RECURSIVE pow2(_)
pow2(t) == IF t = 0 THEN 1 ELSE 2 * pow2(t - 1)

RECURSIVE smallBits(_)
smallBits(n) == IF n = 0 THEN 0 ELSE 1 + smallBits(n \div 2)

\* the number of bits of a
bitLen(a) == IF a = <<>> THEN 0 ELSE 13 * (Len(a) - 1) + smallBits(a[Len(a)])

\* a * 2^s
shiftLeft(a, s) ==
    IF a = <<>> THEN <<>>
    ELSE [k \in 1..(s \div 13) |-> 0] \o mulSmall(a, pow2(s % 13), 0)

\* a \div 2^s, and whether a bit was lost
shiftRight(a, s) ==
    LET n    == IF s \div 13 < Len(a) THEN s \div 13 ELSE Len(a)
        low  == SubSeq(a, 1, n)
        high == divSmall(SubSeq(a, n + 1, Len(a)), pow2(s % 13))
    IN  [q |-> high.q,
         sticky |-> high.r # 0 \/ \E k \in 1..n : low[k] # 0]

\* the double nearest to a number of which a is the integer part, sticky
\* telling that a fraction was cut off (a then has more bits than a double)
roundDouble(a, sticky) ==
    IF bitLen(a) <= MantissaBits THEN [m |-> a, e |-> 0]
    ELSE bind(shiftRight(a, bitLen(a) - MantissaBits - 1), LAMBDA cut :
         bind(shiftRight(cut.q, 1).q, LAMBDA m0 :
           LET up == /\ cut.q[1] % 2 = 1
                     /\ (cut.sticky \/ sticky \/ (m0[1] % 2 = 1))
           IN  [m |-> IF up THEN trimLimbs(carry(m0, 1)) ELSE m0,
                e |-> bitLen(a) - MantissaBits]))

\* a \div 10^k, four digits at a time, and whether a remainder was lost
RECURSIVE divPow10(_, _)
divPow10(a, k) ==
    IF k = 0 THEN [q |-> a, sticky |-> FALSE]
    ELSE LET n    == IF k < 4 THEN k ELSE 4
             d    == divSmall(a, tenTo(n))
             rest == divPow10(d.q, k - n)
         IN  [q |-> rest.q, sticky |-> rest.sticky \/ d.r # 0]

\* the magnitude of parseFloat's result as a double
toDouble(x) ==
    bind(fromDigits(x.ip \o x.fp), LAMBDA p :
      LET k    == Len(x.fp)
          want == MantissaBits + 2 + 4 * k
          s    == IF k > 0 /\ bitLen(p) < want THEN want - bitLen(p) ELSE 0
      IN  bind(divPow10(shiftLeft(p, s), k), LAMBDA quot :
          bind(roundDouble(quot.q, quot.sticky), LAMBDA r :
            [m |-> r.m, e |-> r.e - s])))

\* Math.pow(10, d), for the d whose power a double holds exactly
pow10Double(d) == roundDouble(fromDigits(<<"1">> \o [k \in 1..d |-> "0"]), FALSE)

\* a * b of two doubles
mulDouble(a, b) ==
    bind(roundDouble(bigMul(a.m, b.m), FALSE), LAMBDA r :
      [m |-> r.m, e |-> r.e + a.e + b.e])

\* the integer part of a double's magnitude, and whether it has a fraction
truncDouble(a) ==
    IF a.e >= 0 THEN [q |-> shiftLeft(a.m, a.e), sticky |-> FALSE]
    ELSE shiftRight(a.m, 0 - a.e)

zeros(n) == [k \in 1..n |-> "0"]

\* BigInt(Math.floor(x * Math.pow(10, d))).toString() for a number x: the
\* product is a double, and floor goes down for a negative x
floorScaled(x, d) ==
    bind(truncDouble(mulDouble(toDouble(x), pow10Double(d))), LAMBDA t :
    bind(toDigits(IF x.neg /\ t.sticky THEN trimLimbs(carry(t.q, 1)) ELSE t.q),
         LAMBDA mag :
      IF mag = <<>> THEN <<"0">>
      ELSE IF x.neg THEN <<"-">> \o mag
      ELSE mag))

(***************************************************************************)
(* Optional values: None is null or undefined, Some(x) a present value.    *)
(* An absent text is the empty text where the source treats both alike     *)
(* (!account, fn.name || "", paramName && ...).                            *)
(***************************************************************************)
None == <<>>

Some(x) == <<x>>


(***************************************************************************)
(* Parameter coercion.                                                     *)
(***************************************************************************)
\* the decimals chosen from the contract address (in parseParamValue and in
\* stringifyResult's getDecimals)
UsdtDecimals == 6

DefaultDecimals == 18

getDecimals(contractAddress) ==
    IF toLowerCase(contractAddress) = UsdtAddressLower THEN UsdtDecimals
    ELSE DefaultDecimals

\* the exponent of the threshold 1000000 below which an amount is rescaled
AmountThresholdDigits == 6

isAmountParam(paramName) ==
    /\ paramName # <<>>
    /\ \/ includes(toLowerCase(paramName), TxtAmount)
       \/ includes(toLowerCase(paramName), TxtValue)
       \/ toLowerCase(paramName) = TxtWad
       \/ includes(toLowerCase(paramName), TxtQty)
       \/ includes(toLowerCase(paramName), TxtQuantity)

\* a RangeError of BigInt(NaN): its message does not matter to the catch block
MsgRangeError ==
    <<"N","a","N"," ","c","a","n","n","o","t"," ","b","e"," ",
      "c","o","n","v","e","r","t","e","d">>

Thrown(msg) == [ok |-> FALSE, message |-> msg]

Returned(v) == [ok |-> TRUE, v |-> v]

\* a changed parseParamValue: a bool is true for the texts true, 1 and yes as
\* written, in lower case only
parseParamValueExactBool(type, raw, paramName, contractAddress) ==
    IF startsWith(type, TxtUint) \/ startsWith(type, TxtInt) THEN
        IF trim(raw) = <<>> THEN Thrown(MsgEmptyValue)
        ELSE IF /\ isAmountParam(paramName)
                /\ \/ includes(raw, <<".">>)
                   \/ /\ lessThanPow10(parseFloat(raw), AmountThresholdDigits)
                      /\ isPositive(parseFloat(raw))
        THEN IF parseFloat(raw).nan THEN Thrown(MsgRangeError)
             ELSE Returned(floorScaled(parseFloat(raw), getDecimals(contractAddress)))
        ELSE Returned(raw)
    ELSE IF type = TxtBool THEN Returned(raw \in {TxtTrue, TxtOne, TxtYes})
    ELSE Returned(raw)

\* parseParamValue(type, raw, paramName), which reads contractAddress
parseParamValue(type, raw, paramName, contractAddress) ==
    IF startsWith(type, TxtUint) \/ startsWith(type, TxtInt) THEN
        IF trim(raw) = <<>> THEN Thrown(MsgEmptyValue)
        ELSE IF /\ isAmountParam(paramName)
                /\ \/ includes(raw, <<".">>)
                   \/ /\ lessThanPow10(parseFloat(raw), AmountThresholdDigits)
                      /\ isPositive(parseFloat(raw))
        THEN IF parseFloat(raw).nan THEN Thrown(MsgRangeError)
             ELSE Returned(floorScaled(parseFloat(raw), getDecimals(contractAddress)))
        ELSE Returned(raw)
    ELSE IF type = TxtAddress THEN Returned(raw)
    ELSE IF type = TxtBool THEN
        Returned(toLowerCase(raw) \in {TxtTrue, TxtOne, TxtYes})
    ELSE IF type = TxtString THEN Returned(raw)
    ELSE IF startsWith(type, TxtBytes) THEN Returned(raw)
    ELSE Returned(raw)

(***************************************************************************)
(* JSON.  A text of the ABI field is a sequence of tokens: a punctuation   *)
(* mark, a string literal or a bare word; white space between tokens is    *)
(* not kept.  A parsed value is an array, an object or a string.           *)
(***************************************************************************)
punct(c) == [k |-> "punct", c |-> c]

isPunct(tok, c) == tok.k = "punct" /\ tok.c = c

Undefined == [t |-> "undefined"]

\* a text left as it is
keepCommas(ts) == ts

\* abiText.replace(/,\s*([\]}])/g, '$1'): a comma directly before a closing
\* bracket or brace is removed
stripTrailingCommas(ts) ==
    LET removed(k) == /\ isPunct(ts[k], ",")
                      /\ k < Len(ts)
                      /\ (isPunct(ts[k + 1], "]") \/ isPunct(ts[k + 1], "}"))
        kept       == SelectSeq([k \in 1..Len(ts) |-> k], LAMBDA k : ~removed(k))
    IN  [j \in 1..Len(kept) |-> ts[kept[j]]]

ParseFail == [ok |-> FALSE, v |-> Undefined, n |-> 0]

\* JSON.parse, by recursive descent from token i: the value and the index
\* after it
RECURSIVE parseValue(_, _), parseElements(_, _, _), parseMembers(_, _, _)
parseValue(ts, i) ==
    IF i > Len(ts) THEN ParseFail
    ELSE IF ts[i].k = "str" THEN [ok |-> TRUE, v |-> [t |-> "str", v |-> ts[i].v], n |-> i + 1]
    ELSE IF isPunct(ts[i], "[") THEN
        IF i + 1 <= Len(ts) /\ isPunct(ts[i + 1], "]")
        THEN [ok |-> TRUE, v |-> [t |-> "arr", v |-> <<>>], n |-> i + 2]
        ELSE parseElements(ts, i + 1, <<>>)
    ELSE IF isPunct(ts[i], "{") THEN
        IF i + 1 <= Len(ts) /\ isPunct(ts[i + 1], "}")
        THEN [ok |-> TRUE, v |-> [t |-> "obj", v |-> <<>>], n |-> i + 2]
        ELSE parseMembers(ts, i + 1, <<>>)
    ELSE ParseFail

\* the elements of an array from token i on, acc being those already read
parseElements(ts, i, acc) ==
    LET e == parseValue(ts, i)
    IN  IF ~e.ok \/ e.n > Len(ts) THEN ParseFail
        ELSE IF isPunct(ts[e.n], ",") THEN parseElements(ts, e.n + 1, Append(acc, e.v))
        ELSE IF isPunct(ts[e.n], "]")
             THEN [ok |-> TRUE, v |-> [t |-> "arr", v |-> Append(acc, e.v)], n |-> e.n + 1]
        ELSE ParseFail

\* the members of an object from token i on; acc is a sequence of <<name,
\* value>> pairs, a later member of the same name replacing the earlier one
parseMembers(ts, i, acc) ==
    IF i + 2 > Len(ts) \/ ts[i].k # "str" \/ ~isPunct(ts[i + 1], ":") THEN ParseFail
    ELSE LET e    == parseValue(ts, i + 2)
             kept == SelectSeq(acc, LAMBDA m : m[1] # ts[i].v)
             acc2 == Append(kept, <<ts[i].v, e.v>>)
         IN  IF ~e.ok \/ e.n > Len(ts) THEN ParseFail
             ELSE IF isPunct(ts[e.n], ",") THEN parseMembers(ts, e.n + 1, acc2)
             ELSE IF isPunct(ts[e.n], "}")
                  THEN [ok |-> TRUE, v |-> [t |-> "obj", v |-> acc2], n |-> e.n + 1]
             ELSE ParseFail

\* JSON.parse(text): the whole text must be one value
JSONparse(ts) ==
    LET r == parseValue(ts, 1)
    IN  IF r.ok /\ r.n = Len(ts) + 1 THEN [ok |-> TRUE, v |-> r.v]
        ELSE [ok |-> FALSE, v |-> Undefined]

\* the message of the SyntaxError JSON.parse throws
MsgSyntaxError ==
    <<"U","n","e","x","p","e","c","t","e","d"," ","t","o","k","e","n">>

\* o[key] of a parsed value: undefined when o is no object or has no such member
member(o, key) ==
    IF o.t = "obj" /\ \E k \in 1..Len(o.v) : o.v[k][1] = key
    THEN o.v[CHOOSE k \in 1..Len(o.v) : o.v[k][1] = key][2]
    ELSE Undefined

\* a member read as text: x || "" for a string or an absent x
textOf(x) == IF x.t = "str" THEN x.v ELSE <<>>

\* a member read as a list: x || [] for an array or an absent x
listOf(x) == IF x.t = "arr" THEN x.v ELSE <<>>

KeyType == <<"t","y","p","e">>

KeyName == <<"n","a","m","e">>

KeyInputs == <<"i","n","p","u","t","s">>

KeyStateMutability ==
    <<"s","t","a","t","e","M","u","t","a","b","i","l","i","t","y">>

(***************************************************************************)
(* The catalog.  An entry is a parsed JSON object.                         *)
(***************************************************************************)
\* a key made of the name alone
getFnKeyNameOnly(fn) == textOf(member(fn, KeyName)) \o <<"(", ")">>

\* getFnKey(fn)
getFnKey(fn) ==
    LET name   == textOf(member(fn, KeyName))
        inputs == listOf(member(fn, KeyInputs))
        types  == join([k \in 1..Len(inputs) |-> textOf(member(inputs[k], KeyType))])
    IN  name \o <<"(">> \o types \o <<")">>

\* the key of a parameter field: `${fnKey}#${idx}`, idx counted from 0
paramKey(fnKey, idx) == fnKey \o <<"#">> \o natToText(idx)

\* isReadOnly of callFunction
isReadOnly(fn) ==
    textOf(member(fn, KeyStateMutability)) \in {TxtView, TxtPure}

\* functions: the function entries of the catalog
functions(abi) ==
    SelectSeq(abi, LAMBDA a : textOf(member(a, KeyType)) = TxtFunctionType)

\* paramsState[key] ?? ""
rawOf(paramsState, key) ==
    IF key \in DOMAIN paramsState THEN paramsState[key] ELSE <<>>

\* the coercion of the inputs in declared order (inputs.map of callFunction):
\* the arguments, or the first error thrown
coerceAll(fn, paramsState, contractAddress) ==
    LET inputs == listOf(member(fn, KeyInputs))
        each   == [k \in 1..Len(inputs) |->
                     parseParamValue(textOf(member(inputs[k], KeyType)),
                                     rawOf(paramsState, paramKey(getFnKey(fn), k - 1)),
                                     textOf(member(inputs[k], KeyName)),
                                     contractAddress)]
        bad    == {k \in 1..Len(inputs) : ~each[k].ok}
    IN  IF bad = {} THEN Returned([k \in 1..Len(inputs) |-> each[k].v])
        ELSE Thrown(each[CHOOSE k \in bad : \A j \in bad : k <= j].message)

(***************************************************************************)
(* The texts a user puts in the ABI field.                                 *)
(***************************************************************************)
\* the initial text "[]"
AbiTextEmpty ==
    <<[k |-> "punct", c |-> "["],
      [k |-> "punct", c |-> "]"]>>

\* a token interface with trailing commas: balanceOf (view), mint (no
\* mutability tag), deposit (payable, no inputs) and an event
AbiTextToken ==
    <<[k |-> "punct", c |-> "["],
      [k |-> "punct", c |-> "{"],
      [k |-> "str", v |-> <<"t","y","p","e">>],
      [k |-> "punct", c |-> ":"],
      [k |-> "str", v |-> <<"f","u","n","c","t","i","o","n">>],
      [k |-> "punct", c |-> ","],
      [k |-> "str", v |-> <<"n","a","m","e">>],
      [k |-> "punct", c |-> ":"],
      [k |-> "str", v |-> <<"b","a","l","a","n","c","e","O","f">>],
      [k |-> "punct", c |-> ","],
      [k |-> "str", v |-> <<"i","n","p","u","t","s">>],
      [k |-> "punct", c |-> ":"],
      [k |-> "punct", c |-> "["],
      [k |-> "punct", c |-> "{"],
      [k |-> "str", v |-> <<"n","a","m","e">>],
      [k |-> "punct", c |-> ":"],
      [k |-> "str", v |-> <<"a","c","c","o","u","n","t">>],
      [k |-> "punct", c |-> ","],
      [k |-> "str", v |-> <<"t","y","p","e">>],
      [k |-> "punct", c |-> ":"],
      [k |-> "str", v |-> <<"a","d","d","r","e","s","s">>],
      [k |-> "punct", c |-> "}"],
      [k |-> "punct", c |-> "]"],
      [k |-> "punct", c |-> ","],
      [k |-> "str", v |-> <<"s","t","a","t","e","M","u","t","a","b","i","l","i","t","y">>],
      [k |-> "punct", c |-> ":"],
      [k |-> "str", v |-> <<"v","i","e","w">>],
      [k |-> "punct", c |-> "}"],
      [k |-> "punct", c |-> ","],
      [k |-> "punct", c |-> "{"],
      [k |-> "str", v |-> <<"t","y","p","e">>],
      [k |-> "punct", c |-> ":"],
      [k |-> "str", v |-> <<"f","u","n","c","t","i","o","n">>],
      [k |-> "punct", c |-> ","],
      [k |-> "str", v |-> <<"n","a","m","e">>],
      [k |-> "punct", c |-> ":"],
      [k |-> "str", v |-> <<"m","i","n","t">>],
      [k |-> "punct", c |-> ","],
      [k |-> "str", v |-> <<"i","n","p","u","t","s">>],
      [k |-> "punct", c |-> ":"],
      [k |-> "punct", c |-> "["],
      [k |-> "punct", c |-> "{"],
      [k |-> "str", v |-> <<"n","a","m","e">>],
      [k |-> "punct", c |-> ":"],
      [k |-> "str", v |-> <<"a","m","o","u","n","t">>],
      [k |-> "punct", c |-> ","],
      [k |-> "str", v |-> <<"t","y","p","e">>],
      [k |-> "punct", c |-> ":"],
      [k |-> "str", v |-> <<"u","i","n","t","2","5","6">>],
      [k |-> "punct", c |-> "}"],
      [k |-> "punct", c |-> "]"],
      [k |-> "punct", c |-> ","],
      [k |-> "punct", c |-> "}"],
      [k |-> "punct", c |-> ","],
      [k |-> "punct", c |-> "{"],
      [k |-> "str", v |-> <<"t","y","p","e">>],
      [k |-> "punct", c |-> ":"],
      [k |-> "str", v |-> <<"f","u","n","c","t","i","o","n">>],
      [k |-> "punct", c |-> ","],
      [k |-> "str", v |-> <<"n","a","m","e">>],
      [k |-> "punct", c |-> ":"],
      [k |-> "str", v |-> <<"d","e","p","o","s","i","t">>],
      [k |-> "punct", c |-> ","],
      [k |-> "str", v |-> <<"s","t","a","t","e","M","u","t","a","b","i","l","i","t","y">>],
      [k |-> "punct", c |-> ":"],
      [k |-> "str", v |-> <<"p","a","y","a","b","l","e">>],
      [k |-> "punct", c |-> "}"],
      [k |-> "punct", c |-> ","],
      [k |-> "punct", c |-> "{"],
      [k |-> "str", v |-> <<"t","y","p","e">>],
      [k |-> "punct", c |-> ":"],
      [k |-> "str", v |-> <<"e","v","e","n","t">>],
      [k |-> "punct", c |-> ","],
      [k |-> "str", v |-> <<"n","a","m","e">>],
      [k |-> "punct", c |-> ":"],
      [k |-> "str", v |-> <<"M","i","n","t","e","d">>],
      [k |-> "punct", c |-> "}"],
      [k |-> "punct", c |-> ","],
      [k |-> "punct", c |-> "]"]>>

\* well-formed, but an object and not an array
AbiTextObject ==
    <<[k |-> "punct", c |-> "{"],
      [k |-> "str", v |-> <<"t","y","p","e">>],
      [k |-> "punct", c |-> ":"],
      [k |-> "str", v |-> <<"f","u","n","c","t","i","o","n">>],
      [k |-> "punct", c |-> "}"]>>

\* not well-formed
AbiTextBroken ==
    <<[k |-> "punct", c |-> "["],
      [k |-> "punct", c |-> "{"],
      [k |-> "str", v |-> <<"t","y","p","e">>],
      [k |-> "punct", c |-> "]"]>>

AbiTexts == {AbiTextToken, AbiTextObject}

\* [{"type":"function","name":"f","inputs":[],},]
AbiTextOne ==
    <<[k |-> "punct", c |-> "["],
      [k |-> "punct", c |-> "{"],
      [k |-> "str", v |-> <<"t","y","p","e">>],
      [k |-> "punct", c |-> ":"],
      [k |-> "str", v |-> <<"f","u","n","c","t","i","o","n">>],
      [k |-> "punct", c |-> ","],
      [k |-> "str", v |-> <<"n","a","m","e">>],
      [k |-> "punct", c |-> ":"],
      [k |-> "str", v |-> <<"f">>],
      [k |-> "punct", c |-> ","],
      [k |-> "str", v |-> <<"i","n","p","u","t","s">>],
      [k |-> "punct", c |-> ":"],
      [k |-> "punct", c |-> "["],
      [k |-> "punct", c |-> "]"],
      [k |-> "punct", c |-> ","],
      [k |-> "punct", c |-> "}"],
      [k |-> "punct", c |-> ","],
      [k |-> "punct", c |-> "]"]>>

\* {not an array}: bare words where a member is expected
AbiTextNotArray ==
    <<[k |-> "punct", c |-> "{"],
      [k |-> "word", v |-> <<"n","o","t">>],
      [k |-> "word", v |-> <<"a","n">>],
      [k |-> "word", v |-> <<"a","r","r","a","y">>],
      [k |-> "punct", c |-> "}"]>>

\* two functions f that differ in the type of their input, an f with no
\* inputs member and a function with no name
AbiTextOverloads ==
    <<[k |-> "punct", c |-> "["],
      [k |-> "punct", c |-> "{"],
      [k |-> "str", v |-> <<"t","y","p","e">>],
      [k |-> "punct", c |-> ":"],
      [k |-> "str", v |-> <<"f","u","n","c","t","i","o","n">>],
      [k |-> "punct", c |-> ","],
      [k |-> "str", v |-> <<"n","a","m","e">>],
      [k |-> "punct", c |-> ":"],
      [k |-> "str", v |-> <<"f">>],
      [k |-> "punct", c |-> ","],
      [k |-> "str", v |-> <<"i","n","p","u","t","s">>],
      [k |-> "punct", c |-> ":"],
      [k |-> "punct", c |-> "["],
      [k |-> "punct", c |-> "{"],
      [k |-> "str", v |-> <<"n","a","m","e">>],
      [k |-> "punct", c |-> ":"],
      [k |-> "str", v |-> <<"a">>],
      [k |-> "punct", c |-> ","],
      [k |-> "str", v |-> <<"t","y","p","e">>],
      [k |-> "punct", c |-> ":"],
      [k |-> "str", v |-> <<"u","i","n","t","2","5","6">>],
      [k |-> "punct", c |-> "}"],
      [k |-> "punct", c |-> "]"],
      [k |-> "punct", c |-> "}"],
      [k |-> "punct", c |-> ","],
      [k |-> "punct", c |-> "{"],
      [k |-> "str", v |-> <<"t","y","p","e">>],
      [k |-> "punct", c |-> ":"],
      [k |-> "str", v |-> <<"f","u","n","c","t","i","o","n">>],
      [k |-> "punct", c |-> ","],
      [k |-> "str", v |-> <<"n","a","m","e">>],
      [k |-> "punct", c |-> ":"],
      [k |-> "str", v |-> <<"f">>],
      [k |-> "punct", c |-> ","],
      [k |-> "str", v |-> <<"i","n","p","u","t","s">>],
      [k |-> "punct", c |-> ":"],
      [k |-> "punct", c |-> "["],
      [k |-> "punct", c |-> "{"],
      [k |-> "str", v |-> <<"n","a","m","e">>],
      [k |-> "punct", c |-> ":"],
      [k |-> "str", v |-> <<"a">>],
      [k |-> "punct", c |-> ","],
      [k |-> "str", v |-> <<"t","y","p","e">>],
      [k |-> "punct", c |-> ":"],
      [k |-> "str", v |-> <<"a","d","d","r","e","s","s">>],
      [k |-> "punct", c |-> "}"],
      [k |-> "punct", c |-> "]"],
      [k |-> "punct", c |-> "}"],
      [k |-> "punct", c |-> ","],
      [k |-> "punct", c |-> "{"],
      [k |-> "str", v |-> <<"t","y","p","e">>],
      [k |-> "punct", c |-> ":"],
      [k |-> "str", v |-> <<"f","u","n","c","t","i","o","n">>],
      [k |-> "punct", c |-> ","],
      [k |-> "str", v |-> <<"n","a","m","e">>],
      [k |-> "punct", c |-> ":"],
      [k |-> "str", v |-> <<"f">>],
      [k |-> "punct", c |-> "}"],
      [k |-> "punct", c |-> ","],
      [k |-> "punct", c |-> "{"],
      [k |-> "str", v |-> <<"t","y","p","e">>],
      [k |-> "punct", c |-> ":"],
      [k |-> "str", v |-> <<"f","u","n","c","t","i","o","n">>],
      [k |-> "punct", c |-> "}"],
      [k |-> "punct", c |-> "]"]>>

\* a function f with no inputs declared twice, first as a view
AbiTextDuplicates ==
    <<[k |-> "punct", c |-> "["],
      [k |-> "punct", c |-> "{"],
      [k |-> "str", v |-> <<"t","y","p","e">>],
      [k |-> "punct", c |-> ":"],
      [k |-> "str", v |-> <<"f","u","n","c","t","i","o","n">>],
      [k |-> "punct", c |-> ","],
      [k |-> "str", v |-> <<"n","a","m","e">>],
      [k |-> "punct", c |-> ":"],
      [k |-> "str", v |-> <<"f">>],
      [k |-> "punct", c |-> ","],
      [k |-> "str", v |-> <<"i","n","p","u","t","s">>],
      [k |-> "punct", c |-> ":"],
      [k |-> "punct", c |-> "["],
      [k |-> "punct", c |-> "]"],
      [k |-> "punct", c |-> ","],
      [k |-> "str", v |-> <<"s","t","a","t","e","M","u","t","a","b","i","l","i","t","y">>],
      [k |-> "punct", c |-> ":"],
      [k |-> "str", v |-> <<"v","i","e","w">>],
      [k |-> "punct", c |-> "}"],
      [k |-> "punct", c |-> ","],
      [k |-> "punct", c |-> "{"],
      [k |-> "str", v |-> <<"t","y","p","e">>],
      [k |-> "punct", c |-> ":"],
      [k |-> "str", v |-> <<"f","u","n","c","t","i","o","n">>],
      [k |-> "punct", c |-> ","],
      [k |-> "str", v |-> <<"n","a","m","e">>],
      [k |-> "punct", c |-> ":"],
      [k |-> "str", v |-> <<"f">>],
      [k |-> "punct", c |-> ","],
      [k |-> "str", v |-> <<"i","n","p","u","t","s">>],
      [k |-> "punct", c |-> ":"],
      [k |-> "punct", c |-> "["],
      [k |-> "punct", c |-> "]"],
      [k |-> "punct", c |-> "}"],
      [k |-> "punct", c |-> "]"]>>

\* JSON.stringify(getSampleAbi(), null, 2), of which the entries name and
\* balanceOf (with the members the page reads) are kept
AbiTextSample ==
    <<[k |-> "punct", c |-> "["],
      [k |-> "punct", c |-> "{"],
      [k |-> "str", v |-> <<"t","y","p","e">>],
      [k |-> "punct", c |-> ":"],
      [k |-> "str", v |-> <<"f","u","n","c","t","i","o","n">>],
      [k |-> "punct", c |-> ","],
      [k |-> "str", v |-> <<"n","a","m","e">>],
      [k |-> "punct", c |-> ":"],
      [k |-> "str", v |-> <<"n","a","m","e">>],
      [k |-> "punct", c |-> ","],
      [k |-> "str", v |-> <<"i","n","p","u","t","s">>],
      [k |-> "punct", c |-> ":"],
      [k |-> "punct", c |-> "["],
      [k |-> "punct", c |-> "]"],
      [k |-> "punct", c |-> ","],
      [k |-> "str", v |-> <<"s","t","a","t","e","M","u","t","a","b","i","l","i","t","y">>],
      [k |-> "punct", c |-> ":"],
      [k |-> "str", v |-> <<"v","i","e","w">>],
      [k |-> "punct", c |-> "}"],
      [k |-> "punct", c |-> ","],
      [k |-> "punct", c |-> "{"],
      [k |-> "str", v |-> <<"t","y","p","e">>],
      [k |-> "punct", c |-> ":"],
      [k |-> "str", v |-> <<"f","u","n","c","t","i","o","n">>],
      [k |-> "punct", c |-> ","],
      [k |-> "str", v |-> <<"n","a","m","e">>],
      [k |-> "punct", c |-> ":"],
      [k |-> "str", v |-> <<"b","a","l","a","n","c","e","O","f">>],
      [k |-> "punct", c |-> ","],
      [k |-> "str", v |-> <<"i","n","p","u","t","s">>],
      [k |-> "punct", c |-> ":"],
      [k |-> "punct", c |-> "["],
      [k |-> "punct", c |-> "{"],
      [k |-> "str", v |-> <<"n","a","m","e">>],
      [k |-> "punct", c |-> ":"],
      [k |-> "str", v |-> <<"a","c","c","o","u","n","t">>],
      [k |-> "punct", c |-> ","],
      [k |-> "str", v |-> <<"t","y","p","e">>],
      [k |-> "punct", c |-> ":"],
      [k |-> "str", v |-> <<"a","d","d","r","e","s","s">>],
      [k |-> "punct", c |-> "}"],
      [k |-> "punct", c |-> "]"],
      [k |-> "punct", c |-> ","],
      [k |-> "str", v |-> <<"s","t","a","t","e","M","u","t","a","b","i","l","i","t","y">>],
      [k |-> "punct", c |-> ":"],
      [k |-> "str", v |-> <<"v","i","e","w">>],
      [k |-> "punct", c |-> "}"],
      [k |-> "punct", c |-> "]"]>>

\* the texts of the catalog specification
CatalogTexts ==
    {AbiTextEmpty, AbiTextToken, AbiTextObject, AbiTextBroken, AbiTextOne,
     AbiTextNotArray, AbiTextOverloads, AbiTextDuplicates}

(***************************************************************************)
(* Result formatting.  A returned value is a bigint (its decimal digits),  *)
(* a number (its digits), a string, a boolean, an array or an object.      *)
(***************************************************************************)
\* maximumFractionDigits of the toLocaleString call
MaxFractionDigits == 6

\* the digits of an integer grouped in threes by commas ('en-US')
RECURSIVE groupThousands(_)
groupThousands(ds) ==
    IF Len(ds) <= 3 THEN ds
    ELSE groupThousands(SubSeq(ds, 1, Len(ds) - 3)) \o <<",">>
         \o SubSeq(ds, Len(ds) - 2, Len(ds))

\* s without its trailing zeros
RECURSIVE stripTrailingZeros(_)
stripTrailingZeros(s) ==
    IF s # <<>> /\ s[Len(s)] = "0" THEN stripTrailingZeros(SubSeq(s, 1, Len(s) - 1))
    ELSE s

\* a < b
RECURSIVE lessFrom(_, _, _)
lessFrom(a, b, i) ==
    IF i = 0 THEN FALSE
    ELSE IF a[i] # b[i] THEN a[i] < b[i]
    ELSE lessFrom(a, b, i - 1)

bigLess(a, b) ==
    IF Len(a) # Len(b) THEN Len(a) < Len(b) ELSE lessFrom(a, b, Len(a))

\* a + b
bigAdd(a, b) ==
    trimLimbs(carry([k \in 1..(IF Len(a) > Len(b) THEN Len(a) ELSE Len(b)) |->
                       (IF k <= Len(a) THEN a[k] ELSE 0)
                       + (IF k <= Len(b) THEN b[k] ELSE 0)], 0))

\* a * 10^k
RECURSIVE mulPow10(_, _)
mulPow10(a, k) ==
    IF k = 0 THEN a
    ELSE IF k < 4 THEN mulSmall(a, tenTo(k), 0)
    ELSE mulPow10(mulSmall(a, 10000, 0), k - 4)

\* a / 10^d of a double a, for the d whose power a double holds exactly
divDouble(a, d) ==
    LET want == MantissaBits + 2 + 4 * d
        s    == IF bitLen(a.m) < want THEN want - bitLen(a.m) ELSE 0
    IN  bind(divPow10(shiftLeft(a.m, s), d), LAMBDA quot :
        bind(roundDouble(quot.q, quot.sticky), LAMBDA r :
          [m |-> r.m, e |-> r.e + a.e - s]))

\* The decimal numerals c / 10^f next to a positive double x that read back
\* as x, if there are any: x is n / den for the numerator n below, and reads
\* back from what lies within half a step of it (a quarter below a power of
\* two), the ends included when its significand is even.
nearWith(x, f) ==
    LET sh     == x.e - 2
        up(a)  == IF sh > 0 THEN shiftLeft(a, sh) ELSE a
        byDen(a) == IF sh < 0 THEN shiftLeft(a, 0 - sh) ELSE a
        p(a)   == IF f > 0 THEN mulPow10(a, f) ELSE a
        wHigh  == p(up(<<2>>))
        wLow   == p(up(IF x.m = shiftLeft(<<1>>, bitLen(x.m) - 1)
                       THEN <<1>> ELSE <<2>>))
        closed == ~(bitLen(x.m) = MantissaBits /\ x.m[1] % 2 = 1)
        whole(n) == IF sh < 0 THEN shiftRight(n, 0 - sh).q ELSE n
        val(a) == byDen(IF f < 0 THEN mulPow10(a, 0 - f) ELSE a)
    IN  bind(p(up(mulSmall(x.m, 4, 0))), LAMBDA n :
        bind(IF f < 0 THEN divPow10(whole(n), 0 - f).q ELSE whole(n), LAMBDA c :
        bind(trimLimbs(carry(c, 1)), LAMBDA c1 :
        bind(val(c), LAMBDA vc :
        bind(val(c1), LAMBDA vc1 :
          LET okLow  == IF closed THEN ~bigLess(bigAdd(vc, wLow), n)
                        ELSE bigLess(n, bigAdd(vc, wLow))
              okHigh == IF closed THEN ~bigLess(bigAdd(n, wHigh), vc1)
                        ELSE bigLess(vc1, bigAdd(n, wHigh))
              nearer == ~bigLess(bigAdd(vc, vc1), bigAdd(n, n))
          IN  IF okLow /\ (~okHigh \/ nearer) THEN [found |-> TRUE, c |-> c, f |-> f]
              ELSE IF okHigh THEN [found |-> TRUE, c |-> c1, f |-> f]
              ELSE [found |-> FALSE, c |-> <<>>, f |-> f])))))

\* the shortest such numeral with at most 7 fraction digits, from f digits on
RECURSIVE shortestFrom(_, _)
shortestFrom(x, f) ==
    IF f > MaxFractionDigits + 1 THEN [found |-> FALSE, c |-> <<>>, f |-> f]
    ELSE bind(nearWith(x, f), LAMBDA near :
           IF near.found THEN near ELSE shortestFrom(x, f + 1))

\* x * 10^6 rounded half up, x having a fraction
roundedAtSix(x) ==
    LET n == mulPow10(x.m, MaxFractionDigits)
    IN  shiftRight(trimLimbs(carry(shiftRight(n, (0 - x.e) - 1).q, 1)), 1).q

\* a positive double as toLocaleString prints it with at most six fraction
\* digits: the digits are those of the shortest numeral that reads back as
\* the double, rounded half up at the sixth
fixedSix(x) ==
    LET whole == IF x.e < 0 THEN shiftRight(x.m, 0 - x.e).q ELSE shiftLeft(x.m, x.e)
    IN  bind(shortestFrom(x, 0 - Len(toDigits(whole))), LAMBDA s :
          IF s.found /\ s.f <= MaxFractionDigits THEN [c |-> s.c, f |-> s.f]
          ELSE IF s.found
          THEN [c |-> divSmall(trimLimbs(carry(s.c, 5)), 10).q, f |-> MaxFractionDigits]
          ELSE [c |-> roundedAtSix(x), f |-> MaxFractionDigits])

\* (Number(digits) / Math.pow(10, d)).toLocaleString('en-US',
\* {maximumFractionDigits: 6}) for the digits of a natural number: no trailing
\* zeros in the fraction, thousands grouped
formatScaled(digits, d) ==
    bind(divDouble(roundDouble(fromDigits(digits), FALSE), d), LAMBDA x :
      IF x.m = <<>> THEN <<"0">>
      ELSE
        bind(fixedSix(x), LAMBDA r :
        bind(toDigits(r.c) \o zeros(IF r.f < 0 THEN 0 - r.f ELSE 0), LAMBDA ds :
          LET fl  == IF r.f > 0 THEN r.f ELSE 0
              all == zeros((fl + 1) - Min(fl + 1, Len(ds))) \o ds
              ip  == stripZeros(SubSeq(all, 1, Len(all) - fl))
              fp  == stripTrailingZeros(SubSeq(all, Len(all) - fl + 1, Len(all)))
          IN  (IF ip = <<>> THEN <<"0">> ELSE groupThousands(ip))
              \o (IF fp = <<>> THEN <<>> ELSE <<".">> \o fp))))

\* functionName names a balance or a supply
isBalanceFn(functionName) ==
    /\ functionName # <<>>
    /\ \/ includes(toLowerCase(functionName), TxtBalance)
       \/ includes(toLowerCase(functionName), TxtSupply)

\* JSON.stringify of a string
quoteText(t) ==
    LET esc(c) == IF c \in {"\"", "\\"} THEN <<"\\", c>> ELSE <<c>>
        F[k \in 0..Len(t)] == IF k = 0 THEN <<>> ELSE F[k - 1] \o esc(t[k])
    IN  <<"\"">> \o F[Len(t)] \o <<"\"">>

\* String(res) of a value that is neither array, bigint nor object
genericString(res) ==
    IF res.t = "str" THEN res.v
    ELSE IF res.t = "num" THEN res.v
    ELSE IF res.t = "bool" THEN (IF res.v THEN TxtTrue ELSE <<"f","a","l","s","e">>)
    ELSE <<"u","n","d","e","f","i","n","e","d">>

\* the TypeError of a string conversion of an object with no toString, the
\* TypeError of JSON.stringify on a cyclic object, and what a toString of
\* its own throws
MsgNotPrimitive == <<"C","a","n","n","o","t"," ","c","o","n","v","e","r","t"," ","o","b","j","e","c","t"," ","t","o"," ","p","r","i","m","i","t","i","v","e"," ","v","a","l","u","e">>

MsgCircular == <<"C","o","n","v","e","r","t","i","n","g"," ","c","i","r","c","u","l","a","r"," ","s","t","r","u","c","t","u","r","e"," ","t","o"," ","J","S","O","N">>

MsgOwnToString == <<"t","o","S","t","r","i","n","g"," ","f","a","i","l","e","d">>

\* An object result has its members v, what its toString does (conv: it
\* "returns" the text str, it "throws", or it is "absent" as in an object with
\* no prototype) and whether it holds a reference to itself (cyclic).  A
\* plain object inherits Object.prototype.toString.
plainObject(members) ==
    [t |-> "obj", v |-> members, conv |-> "returns", str |-> TxtObjectObject,
     cyclic |-> FALSE]

\* String(res): the text, or the error thrown
RECURSIVE stringOf(_)
stringOf(res) ==
    IF res.t = "arr" THEN
        LET each == [k \in 1..Len(res.v) |-> stringOf(res.v[k])]
            bad  == {k \in 1..Len(res.v) : ~each[k].ok}
        IN  IF bad = {} THEN Returned(join([k \in 1..Len(res.v) |-> each[k].v]))
            ELSE Thrown(each[CHOOSE k \in bad : \A j \in bad : k <= j].message)
    ELSE IF res.t = "bigint" THEN Returned(res.v)
    ELSE IF res.t = "obj" THEN
        IF res.conv = "returns" THEN Returned(res.str)
        ELSE IF res.conv = "throws" THEN Thrown(MsgOwnToString)
        ELSE Thrown(MsgNotPrimitive)
    ELSE Returned(genericString(res))

\* JSON.stringify(value, replacer) of a value with no cycle: the replacer
\* turns a bigint into its decimal string
RECURSIVE serialize(_)
serialize(x) ==
    IF x.t = "bigint" THEN quoteText(x.v)
    ELSE IF x.t = "str" THEN quoteText(x.v)
    ELSE IF x.t = "arr" THEN
        <<"[">> \o join([k \in 1..Len(x.v) |-> serialize(x.v[k])]) \o <<"]">>
    ELSE IF x.t = "obj" THEN
        <<"{">>
        \o join([k \in 1..Len(x.v) |->
                   quoteText(x.v[k][1]) \o <<":">> \o serialize(x.v[k][2])])
        \o <<"}">>
    ELSE genericString(x)

\* the try block of stringifyResult: the text returned, or the error thrown
RECURSIVE stringifyResult(_, _, _)
stringifyBody(res, functionName, contractAddress) ==
    IF res.t = "arr" THEN
        LET each == [k \in 1..Len(res.v) |->
                       stringifyResult(res.v[k], functionName, contractAddress)]
            bad  == {k \in 1..Len(res.v) : ~each[k].ok}
        IN  IF bad = {}
            THEN Returned(<<"[">>
                          \o join([k \in 1..Len(res.v) |-> quoteText(each[k].v)])
                          \o <<"]">>)
            ELSE Thrown(each[CHOOSE k \in bad : \A j \in bad : k <= j].message)
    ELSE IF res.t = "bigint" THEN
        IF isBalanceFn(functionName)
        THEN Returned(formatScaled(res.v, getDecimals(contractAddress))
                      \o TxtRawOpen \o res.v \o <<")">>)
        ELSE Returned(res.v)
    ELSE IF res.t = "obj" THEN
        \* "toString" in res holds of every object that has or inherits one
        IF res.conv # "absent" THEN
            IF res.conv = "throws" THEN Thrown(MsgOwnToString)
            ELSE IF isBalanceFn(functionName)
            THEN Returned((IF res.str # <<>> /\ \A k \in 1..Len(res.str) : isDigit(res.str[k])
                           THEN formatScaled(res.str, getDecimals(contractAddress))
                           ELSE TxtNaN)
                          \o TxtRawOpen \o res.str \o <<")">>)
            ELSE Returned(res.str)
        ELSE IF res.cyclic THEN Thrown(MsgCircular)
        ELSE Returned(serialize(res))
    ELSE Returned(genericString(res))

\* stringifyResult(res, functionName), which reads contractAddress: what the
\* try block returns, or String(res) from the catch block, which may throw
stringifyResult(res, functionName, contractAddress) ==
    bind(stringifyBody(res, functionName, contractAddress), LAMBDA body :
      IF body.ok THEN body ELSE stringOf(res))

(***************************************************************************)
(* The log.                                                                *)
(***************************************************************************)
\* the number of entries the log keeps
LogCap == 200

\* a pushLog that keeps every entry
pushLogUncapped(l, msg) == <<msg>> \o l

\* pushLog(msg): the new entry first, the oldest dropped beyond the cap (the
\* time stamp put before the message is not modelled)
pushLog(l, msg) == SubSeq(<<msg>> \o l, 1, Min(LogCap, Len(l) + 1))

(***************************************************************************)
(* The catch block of callFunction.  A rejected or thrown value e has a    *)
(* message (Some text) or none (a value that is no Error), and a string    *)
(* form str.                                                               *)
(***************************************************************************)
\* the length beyond which the generic toast cuts the first line
GenericCap == 100

\* error.message || String(e)
messageOrString(e) ==
    IF e.message # None /\ e.message[1] # <<>> THEN e.message[1] ELSE e.str

\* msg.split('\n')[0]
firstLine(msg) ==
    IF \E k \in 1..Len(msg) : msg[k] = "\n"
    THEN SubSeq(msg, 1, (CHOOSE k \in 1..Len(msg) :
                           msg[k] = "\n" /\ \A j \in 1..(k - 1) : msg[j] # "\n") - 1)
    ELSE msg

\* the toast chosen for an error with message text m: the first matching
\* category, else the generic one with the first line, cut at GenericCap
errorToast(m) ==
    IF includes(m, TxtUserRejected) \/ includes(m, TxtUserDenied)
    THEN [kind |-> "cancelled", text |-> <<>>]
    ELSE IF includes(m, TxtInsufficientFunds)
    THEN [kind |-> "insufficient", text |-> <<>>]
    ELSE IF includes(m, TxtNetworkChanged) \/ includes(m, TxtNetworkError)
    THEN [kind |-> "network", text |-> <<>>]
    ELSE IF includes(m, TxtWrongNetwork) \/ includes(m, TxtChainMismatch)
    THEN [kind |-> "wrongchain", text |-> <<>>]
    ELSE [kind |-> "generic",
          text |-> TxtCallFailed \o
                   (IF Len(firstLine(m)) > GenericCap
                    THEN SubSeq(firstLine(m), 1, GenericCap) \o TxtEllipsis
                    ELSE firstLine(m))]

\* an Error object with message m
ErrorOf(m) == [message |-> Some(m), str |-> <<"E","r","r","o","r",":"," ">> \o m]

(***************************************************************************)
(* The wallet (window.ethereum) and what it answers.                       *)
(***************************************************************************)
\* the networks the wallet can be on: Ethereum mainnet and BNB Smart Chain
Chains == {1, 56}

\* the account the wallet holds
WalletAddress == <<"0","x","A","1">>

\* another account of the same wallet
OtherAddress == <<"0","x","B","2">>

HexDigits == <<"0","1","2","3","4","5","6","7","8","9","a","b","c","d","e","f">>

\* BigInt.prototype.toString(16)
RECURSIVE hexText(_)
hexText(n) ==
    IF n < 16 THEN <<HexDigits[n + 1]>>
    ELSE hexText(n \div 16) \o <<HexDigits[(n % 16) + 1]>>

\* `0x${network.chainId.toString(16)}`
hexChainId(n) == <<"0","x">> \o hexText(n)

\* a BrowserProvider made from window.ethereum and the signer got from it:
\* bound to the network the wallet is on when the handle is fetched; `by`
\* names the code that fetched it
providerHandle(net, by) == [kind |-> "provider", net |-> net, by |-> by]

signerHandle(net, by) ==
    [kind |-> "signer", net |-> net, by |-> by]

\* the values an external call is rejected with: an Error whose message names
\* a category, and a value that is no Error and has no message
Rejections ==
    { ErrorOf(TxtUserRejected),
      [message |-> None, str |-> <<"o","o","p","s">>] }

\* what a read call returns
Results ==
    { [t |-> "bigint", v |-> <<"2","0","0","0","0","0","0">>],
      [t |-> "str", v |-> <<"o","k">>] }

\* the hash of a submitted transaction and the receipt of its confirmation
TxHash == <<"0","x","a","b">>

Receipt == [blockNumber |-> 7, status |-> 1]

\* the texts typed into a parameter field
RawTexts == { <<" ">>, <<"1",".","5">> }

\* the texts typed into the contract address field
Addresses == { <<>>, UsdtPresetAddress, LinkPresetAddress }

(***************************************************************************)
(* The state.                                                              *)
(***************************************************************************)
VARIABLES
    ethereum,          \* window.ethereum is present
    walletChain,       \* the network the wallet is on
    walletAuthorized,  \* the wallet exposes its account to this page
    listening,         \* window.ethereum._events: this page's handlers of each event
    chainEvents,       \* chainChanged notifications not yet handled
    walletAccount,     \* the account selected in the wallet
    accountEvents,     \* accountsChanged notifications not yet handled
    notes,             \* changes of account in the wallet so far
    provider,          \* useState: the cached BrowserProvider, or None
    signer,            \* useState: the cached Signer, or None
    account,           \* useState: the connected address, or the empty text
    chainId,           \* useState: the chain id (hex text), or the empty text
    lsAccount,         \* localStorage wallet_account, or the empty text
    lsChainId,         \* localStorage wallet_chainId, or the empty text
    abiText,           \* useState: the text of the ABI field
    contractAddress,   \* useState: the text of the address field
    abi,               \* useState: the parsed catalog
    parseError,        \* useState: the parse error, or None
    paramsState,       \* useState: the parameter fields, by key
    presets,           \* the 100 ms timers of the example buttons: what each will fill in
    logs,              \* useState: the log, newest entry first
    startup,           \* the mount effect: "timer", "ethAccounts", "done"
    conn,              \* the connectWallet call in flight
    chainTimers,       \* signer refreshes scheduled by handleChainChanged
    accountTasks,      \* the refreshes scheduled by handleAccountsChanged, in order
    restore,           \* the restore effect's reconnectWallet call
    inv,               \* the callFunction invocations
    ops,               \* user gestures so far
    switches           \* changes of network in the wallet so far

walletVars == <<ethereum, walletChain, walletAuthorized, listening, chainEvents,
                walletAccount, accountEvents, notes>>

taskVars == <<accountTasks, restore>>

sessionVars == <<provider, signer, account, chainId, lsAccount, lsChainId>>

catalogVars == <<abiText, abi, parseError, presets>>

vars == <<walletVars, sessionVars, catalogVars, contractAddress, paramsState,
          logs, startup, conn, chainTimers, taskVars, inv, ops, switches>>

Slots == 1..MaxInv

NoToast == [kind |-> "none", text |-> <<>>]

IdleInv ==
    [pc |-> "idle", fn |-> Undefined, contractAddress |-> <<>>,
     paramsState |-> <<>>, handles |-> None, requested |-> {},
     call |-> None, confirms |-> 0, nlog |-> 0, toast |-> NoToast]

IdleConn == [pc |-> "idle", net |-> 0, addr |-> <<>>]

\* the restore effect's call of reconnectWallet: where it is, what it has
\* captured, the isReconnecting flag and the error it was rejected with
IdleRestore ==
    [pc |-> "idle", net |-> 0, addr |-> <<>>, isReconnecting |-> FALSE,
     error |-> None]

\* The events of the wallet's emitter and the number of handlers this page
\* has on each.  _events has no entry for an event without handlers, holds
\* the handler itself for an event with one, and an array from two on.
Events == {"accountsChanged", "chainChanged"}

NoListeners == [accountsChanged |-> 0, chainChanged |-> 0]

\* registerListeners() with the wallet there: events.accountsChanged.length is
\* the number of handlers of an array and, of a single handler, the number of
\* its declared parameters, which is 0 for (...args) => ...; unless it is
\* above 0 both handlers are added
registerListeners(events) ==
    IF events.accountsChanged > 1 THEN events
    ELSE [ev \in Events |-> events[ev] + 1]

\* the page as mounted: a wallet may be installed and may have authorized the
\* page before; it is on mainnet until the network is changed in it
Init ==
    /\ ethereum \in BOOLEAN
    /\ walletChain = 1
    /\ walletAuthorized \in BOOLEAN
    /\ listening = NoListeners
    /\ chainEvents = <<>>
    /\ walletAccount = WalletAddress
    /\ accountEvents = <<>>
    /\ notes = 0
    /\ provider = None
    /\ signer = None
    /\ account = <<>>
    /\ chainId = <<>>
    /\ lsAccount = <<>>
    /\ lsChainId = <<>>
    /\ abiText = AbiTextEmpty
    /\ contractAddress = <<>>
    /\ abi = <<>>
    /\ parseError = None
    /\ paramsState = <<>>
    /\ presets = <<>>
    /\ logs = <<>>
    /\ startup = "timer"
    /\ conn = IdleConn
    /\ chainTimers = [timer |-> 0, getSigner |-> 0]
    /\ accountTasks = <<>>
    /\ restore = IdleRestore
    /\ inv = [i \in Slots |-> IdleInv]
    /\ ops = 0
    /\ switches = 0

\* a user gesture is counted, up to the bound
Gesture == ops < MaxOps /\ ops' = ops + 1 /\ switches' = switches

(***************************************************************************)
(* The mount effect (lines 293-381): after 100 ms the handlers are         *)
(* registered and the authorized accounts are asked for.                   *)
(***************************************************************************)
StartupTimer ==
    /\ startup = "timer"
    /\ listening' = IF ethereum THEN registerListeners(listening) ELSE listening
    /\ startup' = IF ethereum THEN "ethAccounts" ELSE "done"
    /\ UNCHANGED <<ethereum, walletAccount, accountEvents, notes, walletChain, walletAuthorized, chainEvents, sessionVars,
                   catalogVars, contractAddress, paramsState, logs, conn,
                   chainTimers, taskVars, inv, ops, switches>>

\* the 5 s interval set after a registration fires: the handlers are
\* registered again if _events has no accountsChanged entry
ListenerCheck ==
    /\ startup # "timer"
    /\ ethereum
    /\ listening' = IF listening.accountsChanged = 0 THEN registerListeners(listening)
                     ELSE listening
    /\ UNCHANGED <<ethereum, walletChain, walletAuthorized, chainEvents,
                   walletAccount, accountEvents, notes, sessionVars, catalogVars,
                   contractAddress, paramsState, logs, startup, conn, chainTimers,
                   taskVars, inv, ops, switches>>

\* the wallet drops the handlers of some events (removeAllListeners)
SubscriptionLost(lost) ==
    /\ ethereum
    /\ lost # {}
    /\ \E ev \in lost : listening[ev] > 0
    /\ \A ev \in Events : listening[ev] < MaxHandlers
    /\ listening' = [ev \in Events |-> IF ev \in lost THEN 0 ELSE listening[ev]]
    /\ UNCHANGED <<ethereum, walletChain, walletAuthorized, chainEvents,
                   walletAccount, accountEvents, notes, sessionVars, catalogVars,
                   contractAddress, paramsState, logs, startup, conn, chainTimers,
                   taskVars, inv, ops, switches>>

\* eth_accounts answers (the first account is adopted) or fails (logged to
\* the console only)
StartupAccounts ==
    /\ startup = "ethAccounts"
    /\ startup' = "done"
    /\ \E answered \in BOOLEAN :
          account' = IF answered /\ walletAuthorized THEN walletAccount ELSE account
    /\ UNCHANGED <<walletVars, provider, signer, chainId, lsAccount, lsChainId,
                   catalogVars, contractAddress, paramsState, logs, conn,
                   chainTimers, taskVars, inv, ops, switches>>

(***************************************************************************)
(* The wallet changes network; the page is notified if it listens.         *)
(***************************************************************************)
WalletSwitchChain(c) ==
    /\ ethereum
    /\ c # walletChain
    /\ switches < MaxSwitches
    /\ switches' = switches + 1
    /\ walletChain' = c
    /\ chainEvents' = chainEvents \o [k \in 1..listening.chainChanged |-> hexChainId(c)]
    /\ UNCHANGED <<ethereum, walletAccount, accountEvents, notes, walletAuthorized, listening, sessionVars, catalogVars,
                   contractAddress, paramsState, logs, startup, conn, chainTimers, taskVars,
                   inv, ops>>

\* a handler that adopts the chain id and schedules no refresh of the signer
handleChainChangedNoRefresh ==
    /\ chainEvents # <<>>
    /\ chainEvents' = Tail(chainEvents)
    /\ chainId' = Head(chainEvents)
    /\ lsChainId' = Head(chainEvents)
    /\ chainTimers' = chainTimers
    /\ UNCHANGED <<ethereum, walletAccount, accountEvents, notes, walletChain, walletAuthorized, listening, provider,
                   signer, account, lsAccount, catalogVars, contractAddress,
                   paramsState, logs, startup, conn, taskVars, inv, ops, switches>>

\* handleChainChanged(chainId)
handleChainChanged ==
    /\ chainEvents # <<>>
    /\ chainEvents' = Tail(chainEvents)
    /\ chainId' = Head(chainEvents)
    /\ lsChainId' = Head(chainEvents)
    /\ chainTimers' = IF ethereum THEN [chainTimers EXCEPT !.timer = @ + 1]
                      ELSE chainTimers
    /\ UNCHANGED <<ethereum, walletAccount, accountEvents, notes, walletChain, walletAuthorized, listening, provider,
                   signer, account, lsAccount, catalogVars, contractAddress,
                   paramsState, logs, startup, conn, taskVars, inv, ops, switches>>

\* the 100 ms timer of handleChainChanged fires: a provider is made and its
\* signer asked for
ChainTimerFire ==
    /\ chainTimers.timer > 0
    /\ chainTimers' = [timer |-> chainTimers.timer - 1,
                       getSigner |-> chainTimers.getSigner + 1]
    /\ UNCHANGED <<walletVars, sessionVars, catalogVars, contractAddress,
                   paramsState, logs, startup, conn, taskVars, inv, ops, switches>>

\* getSigner answers (the handles are cached) or fails (logged to the console)
ChainSignerSettled ==
    /\ chainTimers.getSigner > 0
    /\ chainTimers' = [chainTimers EXCEPT !.getSigner = @ - 1]
    /\ \/ /\ provider' = Some(providerHandle(walletChain, <<"handleChainChanged", 0>>))
          /\ signer' = Some(signerHandle(walletChain, <<"handleChainChanged", 0>>))
          /\ walletAuthorized' = TRUE
       \/ UNCHANGED <<provider, signer, walletAuthorized>>
    /\ UNCHANGED <<ethereum, walletAccount, accountEvents, notes, walletChain, listening, chainEvents, account, chainId,
                   lsAccount, lsChainId, catalogVars, contractAddress, paramsState,
                   logs, startup, conn, taskVars, inv, ops, switches>>

(***************************************************************************)
(* connectWallet and disconnect.                                           *)
(***************************************************************************)
\* the error connectWallet's awaits are rejected with
ConnectRejection == ErrorOf(TxtUserRejected)

\* the click on Connect Wallet (the button is disabled once an account is set)
connectWallet ==
    /\ account = <<>>
    /\ conn.pc = "idle"
    /\ Gesture
    /\ IF ~ethereum
       THEN /\ logs' = pushLog(logs, TxtConnectionFailed \o MsgNoWallet)
            /\ conn' = conn
       ELSE /\ conn' = [conn EXCEPT !.pc = "requestAccounts"]
            /\ logs' = logs
    /\ UNCHANGED <<walletVars, sessionVars, catalogVars, contractAddress,
                   paramsState, startup, chainTimers, taskVars, inv>>

\* the next await of connectWallet resolves, and the code runs to the
\* following one
ConnectResolved ==
    /\ conn.pc \in {"requestAccounts", "ethAccounts", "getSigner", "getAddress",
                    "getNetwork"}
    /\ CASE conn.pc = "requestAccounts" ->
              /\ walletAuthorized' = TRUE
              /\ conn' = [conn EXCEPT !.pc = "ethAccounts"]
              /\ UNCHANGED <<sessionVars, logs>>
         [] conn.pc = "ethAccounts" ->
              /\ conn' = [conn EXCEPT !.pc = "getSigner"]
              /\ UNCHANGED <<walletAuthorized, sessionVars, logs>>
         [] conn.pc = "getSigner" ->
              /\ walletAuthorized' = TRUE
              /\ conn' = [pc |-> "getAddress", net |-> walletChain, addr |-> walletAccount]
              /\ UNCHANGED <<sessionVars, logs>>
         [] conn.pc = "getAddress" ->
              /\ provider' = Some(providerHandle(conn.net, <<"connectWallet", 0>>))
              /\ signer' = Some(signerHandle(conn.net, <<"connectWallet", 0>>))
              /\ account' = conn.addr
              /\ conn' = [conn EXCEPT !.pc = "getNetwork"]
              /\ UNCHANGED <<walletAuthorized, chainId, lsAccount, lsChainId, logs>>
         [] conn.pc = "getNetwork" ->
              /\ chainId' = hexChainId(walletChain)
              /\ lsAccount' = conn.addr
              /\ lsChainId' = hexChainId(walletChain)
              /\ logs' = pushLog(logs, TxtConnected \o conn.addr)
              /\ conn' = IdleConn
              /\ UNCHANGED <<walletAuthorized, provider, signer, account>>
    /\ UNCHANGED <<ethereum, walletAccount, accountEvents, notes, walletChain, listening, chainEvents, catalogVars,
                   contractAddress, paramsState, startup, chainTimers, taskVars, inv, ops, switches>>

\* an await of connectWallet is rejected: the catch block logs the failure
ConnectRejected ==
    /\ conn.pc \in {"requestAccounts", "ethAccounts", "getSigner", "getAddress",
                    "getNetwork"}
    /\ logs' = pushLog(logs, TxtConnectionFailed \o messageOrString(ConnectRejection))
    /\ conn' = IdleConn
    /\ UNCHANGED <<walletVars, sessionVars, catalogVars, contractAddress,
                   paramsState, startup, chainTimers, taskVars, inv, ops, switches>>

\* a disconnect that leaves the wallet_chainId slot in place
disconnectKeepsChainSlot(confirmed) ==
    /\ account # <<>>
    /\ Gesture
    /\ IF confirmed
       THEN /\ provider' = None
            /\ signer' = None
            /\ account' = <<>>
            /\ chainId' = <<>>
            /\ lsAccount' = <<>>
            /\ lsChainId' = lsChainId
            /\ logs' = pushLog(logs, MsgDisconnected)
       ELSE UNCHANGED <<sessionVars, logs>>
    /\ UNCHANGED <<walletVars, catalogVars, contractAddress, paramsState, startup,
                   conn, chainTimers, taskVars, inv>>

\* the click on Disconnect (shown while an account is set), confirmed or not
\* in the dialog
disconnect(confirmed) ==
    /\ account # <<>>
    /\ Gesture
    /\ IF confirmed
       THEN /\ provider' = None
            /\ signer' = None
            /\ account' = <<>>
            /\ chainId' = <<>>
            /\ lsAccount' = <<>>
            /\ lsChainId' = <<>>
            /\ logs' = pushLog(logs, MsgDisconnected)
       ELSE UNCHANGED <<sessionVars, logs>>
    /\ UNCHANGED <<walletVars, catalogVars, contractAddress, paramsState, startup,
                   conn, chainTimers, taskVars, inv>>

(***************************************************************************)
(* The restore effect (lines 190-211) and reconnectWallet (lines 384-452). *)
(***************************************************************************)
\* `Auto-restore connection successful: ${addr}`
TxtRestored == <<"A","u","t","o","-","r","e","s","t","o","r","e"," ","c","o","n","n","e","c","t","i","o","n"," ","s","u","c","c","e","s","s","f","u","l",":"," ">>

\* the page as loaded in a browser that may hold the slots of an earlier
\* session: the restore effect sets its 800 ms timer if wallet_account is
\* there and a wallet is installed
InitSession ==
    /\ ethereum \in BOOLEAN
    /\ walletChain = 1
    /\ walletAuthorized \in BOOLEAN
    /\ listening = NoListeners
    /\ chainEvents = <<>>
    /\ walletAccount = WalletAddress
    /\ accountEvents = <<>>
    /\ notes = 0
    /\ provider = None
    /\ signer = None
    /\ account = <<>>
    /\ chainId = <<>>
    /\ \E saved \in BOOLEAN :
          /\ lsAccount = IF saved THEN WalletAddress ELSE <<>>
          /\ lsChainId = IF saved THEN hexChainId(1) ELSE <<>>
    /\ abiText = AbiTextEmpty
    /\ contractAddress = <<>>
    /\ abi = <<>>
    /\ parseError = None
    /\ paramsState = <<>>
    /\ presets = <<>>
    /\ logs = <<>>
    /\ startup = "timer"
    /\ conn = IdleConn
    /\ chainTimers = [timer |-> 0, getSigner |-> 0]
    /\ accountTasks = <<>>
    /\ restore = [IdleRestore EXCEPT
                    !.pc = IF lsAccount # <<>> /\ ethereum THEN "timer" ELSE "idle"]
    /\ inv = [i \in Slots |-> IdleInv]
    /\ ops = 0
    /\ switches = 0

\* a changed RestoreTimer: the timer fires again while the attempt it started
\* awaits the signer
RestoreTimerAgain ==
    /\ restore.pc \in {"timer", "getSigner"}
    /\ restore' = [restore EXCEPT !.pc = "ethAccounts", !.isReconnecting = TRUE]
    /\ UNCHANGED <<walletVars, sessionVars, catalogVars, contractAddress,
                   paramsState, logs, startup, conn, chainTimers, accountTasks,
                   inv, ops, switches>>

\* the 800 ms timer fires: reconnectWallet raises isReconnecting, asks for the
\* authorized accounts and sets the 10 s timer it races the answer with (the
\* isReconnecting it reads is that of the first render, false)
RestoreTimer ==
    /\ restore.pc = "timer"
    /\ restore' = [restore EXCEPT !.pc = "ethAccounts", !.isReconnecting = TRUE]
    /\ UNCHANGED <<walletVars, sessionVars, catalogVars, contractAddress,
                   paramsState, logs, startup, conn, chainTimers, accountTasks,
                   inv, ops, switches>>

\* the next await of reconnectWallet resolves, and the code runs to the
\* following one; with no authorized account it returns (line 418); getAddress
\* answers from the signer that getSigner made
RestoreResolved ==
    /\ restore.pc \in {"ethAccounts", "getSigner", "getNetwork"}
    /\ CASE restore.pc = "ethAccounts" ->
              /\ restore' = [restore EXCEPT
                               !.pc = IF walletAuthorized THEN "getSigner"
                                      ELSE "abandoned",
                               !.isReconnecting = walletAuthorized]
              /\ UNCHANGED <<walletAuthorized, sessionVars, logs>>
         [] restore.pc = "getSigner" ->
              /\ walletAuthorized' = TRUE
              /\ restore' = [restore EXCEPT !.pc = "getNetwork",
                                             !.net = walletChain,
                                             !.addr = walletAccount]
              /\ UNCHANGED <<sessionVars, logs>>
         [] restore.pc = "getNetwork" ->
              /\ provider' = Some(providerHandle(restore.net, <<"reconnectWallet", 0>>))
              /\ signer' = Some(signerHandle(restore.net, <<"reconnectWallet", 0>>))
              /\ account' = restore.addr
              /\ chainId' = hexChainId(walletChain)
              /\ lsAccount' = restore.addr
              /\ lsChainId' = hexChainId(walletChain)
              /\ logs' = pushLog(logs, TxtRestored \o restore.addr)
              /\ restore' = [restore EXCEPT !.pc = "restored",
                                             !.isReconnecting = FALSE]
              /\ UNCHANGED walletAuthorized
    /\ UNCHANGED <<ethereum, walletChain, listening, chainEvents, walletAccount,
                   accountEvents, notes, catalogVars, contractAddress, paramsState,
                   startup, conn, chainTimers, accountTasks, inv, ops, switches>>

\* new Error('Account fetch timeout')
MsgFetchTimeout ==
    <<"A","c","c","o","u","n","t"," ","f","e","t","c","h"," ","t","i","m","e","o","u","t">>

\* the catch and finally blocks of reconnectWallet and the catch of the
\* effect: isReconnecting is lowered and both slots are removed
restoreFailed(msg) ==
    /\ restore' = [restore EXCEPT !.pc = "failed", !.isReconnecting = FALSE,
                                  !.error = Some(msg)]
    /\ lsAccount' = <<>>
    /\ lsChainId' = <<>>
    /\ UNCHANGED <<walletVars, provider, signer, account, chainId, catalogVars,
                   contractAddress, paramsState, logs, startup, conn, chainTimers,
                   accountTasks, inv, ops, switches>>

\* an await of reconnectWallet is rejected by the wallet
RestoreRejected ==
    /\ restore.pc \in {"ethAccounts", "getSigner", "getNetwork"}
    /\ restoreFailed(TxtUserRejected)

\* a changed RestoreTimeout: the failure leaves the slots and the flag
RestoreTimeoutKeepsSession ==
    /\ restore.pc = "ethAccounts"
    /\ restore' = [restore EXCEPT !.pc = "failed", !.error = Some(MsgFetchTimeout)]
    /\ UNCHANGED <<walletVars, sessionVars, catalogVars, contractAddress,
                   paramsState, logs, startup, conn, chainTimers, accountTasks,
                   inv, ops, switches>>

\* the 10 s timer fires before eth_accounts has answered: Promise.race is
\* rejected with the timeout error
RestoreTimeout ==
    /\ restore.pc = "ethAccounts"
    /\ restoreFailed(MsgFetchTimeout)

(***************************************************************************)
(* The wallet changes account, or withdraws the page's authorization; the  *)
(* page is notified of the new account list if it listens.                 *)
(***************************************************************************)
WalletAccountsChanged(accounts) ==
    /\ ethereum
    /\ walletAuthorized
    /\ accounts # <<walletAccount>>
    /\ notes < MaxNotes
    /\ notes' = notes + 1
    /\ walletAccount' = IF accounts # <<>> THEN accounts[1] ELSE walletAccount
    /\ walletAuthorized' = (accounts # <<>>)
    /\ accountEvents' = accountEvents \o [k \in 1..listening.accountsChanged |-> accounts]
    /\ UNCHANGED <<ethereum, walletChain, listening, chainEvents, sessionVars,
                   catalogVars, contractAddress, paramsState, logs, startup, conn,
                   chainTimers, taskVars, inv, ops, switches>>

\* a handler that empties the state and leaves localStorage as it is
handleAccountsChangedKeepsSlots ==
    /\ accountEvents # <<>>
    /\ accountEvents' = Tail(accountEvents)
    /\ IF Head(accountEvents) # <<>>
       THEN /\ accountTasks' = Append(accountTasks,
                                      [pc |-> "timer", accounts |-> Head(accountEvents),
                                       addr |-> <<>>])
            /\ UNCHANGED sessionVars
       ELSE /\ provider' = None
            /\ signer' = None
            /\ account' = <<>>
            /\ chainId' = <<>>
            /\ lsAccount' = lsAccount
            /\ lsChainId' = lsChainId
            /\ accountTasks' = accountTasks
    /\ UNCHANGED <<ethereum, walletChain, walletAuthorized, listening, chainEvents,
                   walletAccount, notes, catalogVars, contractAddress, paramsState,
                   logs, startup, conn, chainTimers, restore, inv, ops, switches>>

\* handleAccountsChanged(accounts): a non-empty list sets the 100 ms timer of
\* the refresh, an empty one empties the session and clears localStorage
handleAccountsChanged ==
    /\ accountEvents # <<>>
    /\ accountEvents' = Tail(accountEvents)
    /\ IF Head(accountEvents) # <<>>
       THEN /\ accountTasks' = Append(accountTasks,
                                      [pc |-> "timer", accounts |-> Head(accountEvents),
                                       addr |-> <<>>])
            /\ UNCHANGED sessionVars
       ELSE /\ provider' = None
            /\ signer' = None
            /\ account' = <<>>
            /\ chainId' = <<>>
            /\ lsAccount' = <<>>
            /\ lsChainId' = <<>>
            /\ accountTasks' = accountTasks
    /\ UNCHANGED <<ethereum, walletChain, walletAuthorized, listening, chainEvents,
                   walletAccount, notes, catalogVars, contractAddress, paramsState,
                   logs, startup, conn, chainTimers, restore, inv, ops, switches>>

\* the refresh of notification k goes on: its timer fires and the signer is
\* asked for, or the next await resolves and the code runs to the following
\* one; getAddress answers from the signer that getSigner made
AccountTaskStep(k) ==
    /\ accountTasks[k].pc \in {"timer", "getSigner", "getNetwork"}
    /\ CASE accountTasks[k].pc = "timer" ->
              /\ accountTasks' = [accountTasks EXCEPT ![k].pc = "getSigner"]
              /\ UNCHANGED <<walletAuthorized, sessionVars>>
         [] accountTasks[k].pc = "getSigner" ->
              /\ walletAuthorized' = TRUE
              /\ provider' = Some(providerHandle(walletChain, <<"handleAccountsChanged", 0>>))
              /\ signer' = Some(signerHandle(walletChain, <<"handleAccountsChanged", 0>>))
              /\ account' = walletAccount
              /\ accountTasks' = [accountTasks EXCEPT ![k].pc = "getNetwork",
                                                      ![k].addr = walletAccount]
              /\ UNCHANGED <<chainId, lsAccount, lsChainId>>
         [] accountTasks[k].pc = "getNetwork" ->
              /\ chainId' = hexChainId(walletChain)
              /\ lsAccount' = accountTasks[k].addr
              /\ lsChainId' = hexChainId(walletChain)
              /\ accountTasks' = [accountTasks EXCEPT ![k].pc = "done"]
              /\ UNCHANGED <<walletAuthorized, provider, signer, account>>
    /\ UNCHANGED <<ethereum, walletChain, listening, chainEvents, walletAccount,
                   accountEvents, notes, catalogVars, contractAddress, paramsState,
                   logs, startup, conn, chainTimers, restore, inv, ops, switches>>

\* an await of the refresh is rejected: the catch block shows a toast
AccountTaskRejected(k) ==
    /\ accountTasks[k].pc \in {"getSigner", "getNetwork"}
    /\ accountTasks' = [accountTasks EXCEPT ![k].pc = "failed"]
    /\ UNCHANGED <<walletVars, sessionVars, catalogVars, contractAddress,
                   paramsState, logs, startup, conn, chainTimers, restore, inv,
                   ops, switches>>

(***************************************************************************)
(* The ABI field, the address field and the parameter fields.              *)
(***************************************************************************)
\* the ABI textarea's onChange
setAbiText(text) ==
    /\ text # abiText
    /\ Gesture
    /\ abiText' = text
    /\ UNCHANGED <<walletVars, sessionVars, abi, parseError, presets, contractAddress,
                   paramsState, logs, startup, conn, chainTimers, taskVars, inv>>

\* a parse that adds the parsed entries to the catalog there is
tryParseAbiAppends ==
    /\ Gesture
    /\ LET parsed == JSONparse(stripTrailingCommas(abiText))
       IN  IF parsed.ok /\ parsed.v.t = "arr"
           THEN /\ abi' = abi \o parsed.v.v
                /\ parseError' = None
                /\ logs' = pushLog(logs, MsgParsed)
           ELSE /\ parseError' = Some(IF parsed.ok THEN MsgNotArray ELSE MsgSyntaxError)
                /\ abi' = <<>>
                /\ logs' = pushLog(logs, TxtParseFailed \o
                                   (IF parsed.ok THEN MsgNotArray ELSE MsgSyntaxError))
    /\ UNCHANGED <<walletVars, sessionVars, abiText, presets, contractAddress, paramsState,
                   startup, conn, chainTimers, taskVars, inv>>

\* a changed tryParseAbi: a failed parse records the error and leaves the
\* catalog as it was
tryParseAbiKeepsCatalog ==
    /\ Gesture
    /\ LET parsed == JSONparse(stripTrailingCommas(abiText))
       IN  IF parsed.ok /\ parsed.v.t = "arr"
           THEN /\ abi' = parsed.v.v
                /\ parseError' = None
                /\ logs' = pushLog(logs, MsgParsed)
           ELSE /\ parseError' = Some(IF parsed.ok THEN MsgNotArray ELSE MsgSyntaxError)
                /\ abi' = abi
                /\ logs' = pushLog(logs, TxtParseFailed \o
                                   (IF parsed.ok THEN MsgNotArray ELSE MsgSyntaxError))
    /\ UNCHANGED <<walletVars, sessionVars, abiText, presets, contractAddress, paramsState,
                   startup, conn, chainTimers, taskVars, inv>>

\* tryParseAbi
tryParseAbi ==
    /\ Gesture
    /\ LET parsed == JSONparse(stripTrailingCommas(abiText))
       IN  IF parsed.ok /\ parsed.v.t = "arr"
           THEN /\ abi' = parsed.v.v
                /\ parseError' = None
                /\ logs' = pushLog(logs, MsgParsed)
           ELSE /\ parseError' = Some(IF parsed.ok THEN MsgNotArray ELSE MsgSyntaxError)
                /\ abi' = <<>>
                /\ logs' = pushLog(logs, TxtParseFailed \o
                                   (IF parsed.ok THEN MsgNotArray ELSE MsgSyntaxError))
    /\ UNCHANGED <<walletVars, sessionVars, abiText, presets, contractAddress, paramsState,
                   startup, conn, chainTimers, taskVars, inv>>

\* "0x4281eCF07378Ee595C564a59048801330f3084eE" and
\* "0xd8dA6BF26964aF9D7eEd9e03E53415D37aA96045", the owners the example
\* buttons fill in
LinkOwner == <<"0","x","4","2","8","1","e","C","F","0","7","3","7","8","E","e","5","9","5","C","5","6","4","a","5","9","0","4","8","8","0","1","3","3","0","f","3","0","8","4","e","E">>

UsdtOwner == <<"0","x","d","8","d","A","6","B","F","2","6","9","6","4","a","F","9","D","7","e","E","d","9","e","0","3","E","5","3","4","1","5","D","3","7","a","A","9","6","0","4","5">>

\* 'balanceOf(address)#0'
BalanceOfKey == <<"b","a","l","a","n","c","e","O","f","(","a","d","d","r","e","s","s",")","#","0">>

\* the LINK and USDT example buttons: the contract address and the owner
Examples ==
    { [address |-> LinkPresetAddress, owner |-> LinkOwner],
      [address |-> UsdtPresetAddress, owner |-> UsdtOwner] }

\* the click on an example button: the ABI text and the address are filled
\* in and a 100 ms timer is set (the request to change network and the text
\* of the USDT interface are not modelled)
loadExample(ex) ==
    /\ Gesture
    /\ abiText' = AbiTextSample
    /\ contractAddress' = ex.address
    /\ presets' = Append(presets, ex.owner)
    /\ UNCHANGED <<walletVars, sessionVars, abi, parseError, paramsState, logs,
                   startup, conn, chainTimers, taskVars, inv>>

\* the timer of an example button fires: setParamsState({...}) with the one
\* key
ExampleTimer ==
    /\ presets # <<>>
    /\ presets' = Tail(presets)
    /\ paramsState' = (BalanceOfKey :> Head(presets))
    /\ UNCHANGED <<walletVars, sessionVars, abiText, abi, parseError,
                   contractAddress, logs, startup, conn, chainTimers, taskVars,
                   inv, ops, switches>>

\* the click on Clear Logs (the button is disabled while the log is empty)
clearLogs ==
    /\ logs # <<>>
    /\ Gesture
    /\ logs' = <<>>
    /\ UNCHANGED <<walletVars, sessionVars, catalogVars, contractAddress,
                   paramsState, startup, conn, chainTimers, taskVars, inv>>

\* the address input's onChange
setContractAddress(a) ==
    /\ a # contractAddress
    /\ Gesture
    /\ contractAddress' = a
    /\ UNCHANGED <<walletVars, sessionVars, catalogVars, paramsState, logs, startup,
                   conn, chainTimers, taskVars, inv>>

\* updateParam(fnKey, idx, value), from the field of input idx of a function
\* of the catalog
updateParam(fnKey, idx, value) ==
    /\ Gesture
    /\ rawOf(paramsState, paramKey(fnKey, idx)) # value
    /\ paramsState' = (paramKey(fnKey, idx) :> value) @@ paramsState
    /\ UNCHANGED <<walletVars, sessionVars, catalogVars, contractAddress, logs,
                   startup, conn, chainTimers, taskVars, inv>>

(***************************************************************************)
(* callFunction(fn).  The function is a closure of the render in which the *)
(* button was made: account, contractAddress and paramsState are the       *)
(* values of that render, also after an await.  An invocation record keeps *)
(* them, with the handles it fetched, the requests it made of the wallet   *)
(* and of the contract, the number of log entries it pushed and its toast. *)
(***************************************************************************)
\* the catch block: the failure is logged, then the toast is chosen from the
\* message; reading .includes of an absent message throws out of the block
Caught(rec, e) ==
    IF e.message = None
    THEN [rec EXCEPT !.pc = "escaped", !.nlog = @ + 1]
    ELSE [rec EXCEPT !.pc = "failed", !.nlog = @ + 1,
                     !.toast = errorToast(e.message[1])]

\* a changed preconditionError: the address is looked at before the account
preconditionErrorAddressFirst(eth, acct, addr) ==
    IF ~eth THEN Some(ErrorOf(MsgNoProvider))
    ELSE IF addr = <<>> THEN Some(ErrorOf(MsgNoAddress))
    ELSE IF acct = <<>> THEN Some(ErrorOf(MsgNotConnected))
    ELSE None

\* the first precondition that is not met, as the Error thrown, or None
preconditionError(eth, acct, addr) ==
    IF ~eth THEN Some(ErrorOf(MsgNoProvider))
    ELSE IF acct = <<>> THEN Some(ErrorOf(MsgNotConnected))
    ELSE IF addr = <<>> THEN Some(ErrorOf(MsgNoAddress))
    ELSE None

\* the click on a function's button: the preconditions, then a provider is
\* made from window.ethereum and its signer asked for
StartCall(i, fn) ==
    /\ inv[i].pc = "idle"
    /\ \A j \in Slots : j < i => inv[j].pc # "idle"
    /\ Gesture
    /\ LET rec == [IdleInv EXCEPT !.fn = fn,
                                  !.contractAddress = contractAddress,
                                  !.paramsState = paramsState,
                                  !.toast = [kind |-> "loading", text |-> <<>>]]
           err == preconditionError(ethereum, account, contractAddress)
       IN  IF err # None
           THEN /\ inv' = [inv EXCEPT ![i] = Caught(rec, err[1])]
                /\ logs' = pushLog(logs, TxtCallFailed \o messageOrString(err[1]))
           ELSE /\ inv' = [inv EXCEPT ![i] =
                             [rec EXCEPT !.pc = "getSigner",
                                         !.requested = {"getSigner"}]]
                /\ logs' = logs
    /\ UNCHANGED <<walletVars, sessionVars, catalogVars, contractAddress,
                   paramsState, startup, conn, chainTimers, taskVars>>

\* a changed contractRunner: the handles cached by the session are used when
\* there are any
contractRunnerCached(rec, currentProvider, currentSigner, cachedProvider, cachedSigner) ==
    IF isReadOnly(rec.fn)
    THEN (IF cachedProvider # None THEN cachedProvider[1] ELSE currentProvider)
    ELSE (IF cachedSigner # None THEN cachedSigner[1] ELSE currentSigner)

\* the runner the Contract is made with: isReadOnly ? currentProvider :
\* currentSigner
contractRunner(rec, currentProvider, currentSigner, cachedProvider, cachedSigner) ==
    IF isReadOnly(rec.fn) THEN currentProvider ELSE currentSigner

\* the continuation after getSigner: the inputs are coerced and the call is
\* made through the Contract
afterGetSigner(rec, currentProvider, currentSigner, cachedProvider, cachedSigner) ==
    LET rec1 == [rec EXCEPT !.handles = Some([provider |-> currentProvider,
                                               signer |-> currentSigner])]
        args == coerceAll(rec.fn, rec.paramsState, rec.contractAddress)
    IN  IF ~args.ok THEN Caught(rec1, ErrorOf(args.message))
        ELSE [rec1 EXCEPT
                !.pc = IF isReadOnly(rec.fn) THEN "calling" ELSE "sending",
                !.requested = @ \cup {IF isReadOnly(rec.fn) THEN "call" ELSE "send"},
                !.toast = IF isReadOnly(rec.fn) THEN @
                          ELSE [kind |-> "waiting", text |-> <<>>],
                !.call = Some([address |-> rec.contractAddress,
                               name |-> textOf(member(rec.fn, KeyName)),
                               args |-> args.v,
                               runner |-> contractRunner(rec, currentProvider,
                                              currentSigner, cachedProvider,
                                              cachedSigner)])]

\* the log entry of the continuation after getSigner, if it pushes one
afterGetSignerLog(rec) ==
    LET args == coerceAll(rec.fn, rec.paramsState, rec.contractAddress)
    IN  IF ~args.ok THEN Some(TxtCallFailed \o messageOrString(ErrorOf(args.message)))
        ELSE None

\* currentProvider.getSigner() resolves
SignerResolved(i) ==
    /\ inv[i].pc = "getSigner"
    /\ walletAuthorized' = TRUE
    /\ inv' = [inv EXCEPT ![i] =
                 afterGetSigner(inv[i],
                                providerHandle(walletChain, <<"callFunction", i>>),
                                signerHandle(walletChain, <<"callFunction", i>>),
                                provider, signer)]
    /\ logs' = IF afterGetSignerLog(inv[i]) = None THEN logs
               ELSE pushLog(logs, afterGetSignerLog(inv[i])[1])
    /\ UNCHANGED <<ethereum, walletAccount, accountEvents, notes, walletChain, listening, chainEvents, sessionVars,
                   catalogVars, contractAddress, paramsState, startup, conn,
                   chainTimers, taskVars, ops, switches>>

\* the success of the read path: the result is formatted and logged
readSettled(rec, res) ==
    [rec EXCEPT !.pc = "success", !.nlog = @ + 1,
                !.toast = [kind |-> "success", text |-> <<>>]]

\* the read call resolves with a result: it is formatted and logged, or the
\* formatter throws and the catch block runs
CallResolved(i, res) ==
    /\ inv[i].pc = "calling"
    /\ LET result == stringifyResult(res, textOf(member(inv[i].fn, KeyName)),
                                     inv[i].contractAddress)
       IN  IF result.ok
           THEN /\ inv' = [inv EXCEPT ![i] = readSettled(inv[i], res)]
                /\ logs' = pushLog(logs,
                             TxtFunction \o textOf(member(inv[i].fn, KeyName))
                             \o TxtResult \o result.v)
           ELSE /\ inv' = [inv EXCEPT ![i] = Caught(inv[i], ErrorOf(result.message))]
                /\ logs' = pushLog(logs, TxtCallFailed
                                         \o messageOrString(ErrorOf(result.message)))
    /\ UNCHANGED <<walletVars, sessionVars, catalogVars, contractAddress,
                   paramsState, startup, conn, chainTimers, taskVars, ops, switches>>

\* a changed txSent: success is reported when the transaction is sent
txSentReportsSuccess(rec) ==
    [rec EXCEPT !.pc = "success", !.nlog = @ + 1,
                !.toast = [kind |-> "success", text |-> <<>>]]

\* the write path once the transaction is sent: it is logged and one
\* confirmation is waited for (txResp.wait(1))
txSent(rec) ==
    [rec EXCEPT !.pc = "confirming", !.nlog = @ + 1,
                !.requested = @ \cup {"wait"}, !.confirms = 1,
                !.toast = [kind |-> "sent", text |-> <<>>]]

\* a changed TxSubmitted: the submission is not logged
TxSubmittedSilent(i) ==
    /\ inv[i].pc = "sending"
    /\ inv' = [inv EXCEPT ![i] = [txSent(inv[i]) EXCEPT !.nlog = inv[i].nlog]]
    /\ logs' = logs
    /\ UNCHANGED <<walletVars, sessionVars, catalogVars, contractAddress,
                   paramsState, startup, conn, chainTimers, taskVars, ops, switches>>

\* the transaction call resolves with the pending transaction
TxSubmitted(i) ==
    /\ inv[i].pc = "sending"
    /\ inv' = [inv EXCEPT ![i] = txSent(inv[i])]
    /\ logs' = pushLog(logs, TxtTxSent \o TxHash)
    /\ UNCHANGED <<walletVars, sessionVars, catalogVars, contractAddress,
                   paramsState, startup, conn, chainTimers, taskVars, ops, switches>>

\* the write path once the confirmation is in: logged, success reported
txConfirmed(rec) ==
    [rec EXCEPT !.pc = "success", !.nlog = @ + 1,
                !.toast = [kind |-> "success", text |-> <<>>]]

\* txResp.wait(1) resolves with the receipt
TxConfirmed(i) ==
    /\ inv[i].pc = "confirming"
    /\ inv' = [inv EXCEPT ![i] = txConfirmed(inv[i])]
    /\ logs' = pushLog(logs, TxtTxConfirmed \o natToText(Receipt.blockNumber)
                             \o TxtStatus \o natToText(Receipt.status))
    /\ UNCHANGED <<walletVars, sessionVars, catalogVars, contractAddress,
                   paramsState, startup, conn, chainTimers, taskVars, ops, switches>>

\* a changed CallRejected: the failure also drops the cached handles
CallRejectedDropsHandles(i, e) ==
    /\ inv[i].pc \in {"getSigner", "calling", "sending", "confirming"}
    /\ inv' = [inv EXCEPT ![i] = Caught(inv[i], e)]
    /\ logs' = pushLog(logs, TxtCallFailed \o messageOrString(e))
    /\ provider' = None
    /\ signer' = None
    /\ UNCHANGED <<walletVars, account, chainId, lsAccount, lsChainId, catalogVars,
                   contractAddress, paramsState, startup, conn, chainTimers, taskVars, ops,
                   switches>>

\* a changed CallRejected: a failure ends every invocation in flight
CallRejectedEndsAll(i, e) ==
    /\ inv[i].pc \in {"getSigner", "calling", "sending", "confirming"}
    /\ inv' = [j \in Slots |->
                 IF inv[j].pc \in {"getSigner", "calling", "sending", "confirming"}
                 THEN Caught(inv[j], e) ELSE inv[j]]
    /\ logs' = pushLog(logs, TxtCallFailed \o messageOrString(e))
    /\ UNCHANGED <<walletVars, sessionVars, catalogVars, contractAddress,
                   paramsState, startup, conn, chainTimers, taskVars, ops, switches>>

\* an await of callFunction is rejected with e: the catch block runs
CallRejected(i, e) ==
    /\ inv[i].pc \in {"getSigner", "calling", "sending", "confirming"}
    /\ inv' = [inv EXCEPT ![i] = Caught(inv[i], e)]
    /\ logs' = pushLog(logs, TxtCallFailed \o messageOrString(e))
    /\ UNCHANGED <<walletVars, sessionVars, catalogVars, contractAddress,
                   paramsState, startup, conn, chainTimers, taskVars, ops, switches>>

(***************************************************************************)
(* The component.                                                          *)
(***************************************************************************)
\* the parameter fields on the page: one per input of a function of the catalog
Fields ==
    UNION { {<<getFnKey(functions(abi)[k]), j - 1>> :
                j \in 1..Len(listOf(member(functions(abi)[k], KeyInputs)))} :
            k \in 1..Len(functions(abi)) }

\* a step of some invocation of callFunction
CallStep ==
    \/ \E i \in Slots : \E k \in 1..Len(functions(abi)) : StartCall(i, functions(abi)[k])
    \/ \E i \in Slots : SignerResolved(i)
    \/ \E i \in Slots : \E res \in Results : CallResolved(i, res)
    \/ \E i \in Slots : TxSubmitted(i)
    \/ \E i \in Slots : TxConfirmed(i)
    \/ \E i \in Slots : \E e \in Rejections : CallRejected(i, e)

Next ==
    \/ StartupTimer
    \/ StartupAccounts
    \/ \E c \in Chains : WalletSwitchChain(c)
    \/ handleChainChanged
    \/ ChainTimerFire
    \/ ChainSignerSettled
    \/ connectWallet
    \/ ConnectResolved
    \/ ConnectRejected
    \/ \E confirmed \in BOOLEAN : disconnect(confirmed)
    \/ \E text \in AbiTexts : setAbiText(text)
    \/ tryParseAbi
    \/ \E a \in Addresses : setContractAddress(a)
    \/ \E f \in Fields : \E value \in RawTexts : updateParam(f[1], f[2], value)
    \/ CallStep

Spec == Init /\ [][Next]_vars

\* the contract panel alone: the page is edited and functions are called while
\* the wallet session is left as the mount effect made it
NextDispatch ==
    \/ StartupTimer
    \/ StartupAccounts
    \/ \E text \in AbiTexts : setAbiText(text)
    \/ tryParseAbi
    \/ \E a \in Addresses : setContractAddress(a)
    \/ \E f \in Fields : \E value \in RawTexts : updateParam(f[1], f[2], value)
    \/ CallStep

SpecDispatch == Init /\ [][NextDispatch]_vars

\* the ABI field and the parameter fields alone
NextCatalog ==
    \/ \E text \in CatalogTexts : setAbiText(text)
    \/ tryParseAbi
    \/ \E f \in Fields : \E value \in RawTexts : updateParam(f[1], f[2], value)

SpecCatalog == Init /\ [][NextCatalog]_vars

\* the parameter fields: the catalog is parsed, fields are typed into, an
\* example is loaded and functions are called
NextParams ==
    \/ StartupTimer
    \/ StartupAccounts
    \/ \E text \in {AbiTextToken} : setAbiText(text)
    \/ tryParseAbi
    \/ \E f \in Fields : \E value \in RawTexts : updateParam(f[1], f[2], value)
    \/ \E ex \in Examples : loadExample(ex)
    \/ ExampleTimer
    \/ CallStep

SpecParams == Init /\ [][NextParams]_vars

(***************************************************************************)
(* The log, from a page whose log is empty, one short of full, or full.    *)
(***************************************************************************)
\* a log of n entries pushed one after the other: entry n is the newest
numberedLog(n) == [j \in 1..n |-> natToText(n + 1 - j)]

LogFills == {0, LogCap - 1, LogCap}

InitLog ==
    /\ ethereum \in BOOLEAN
    /\ walletChain = 1
    /\ walletAuthorized = FALSE
    /\ listening = NoListeners
    /\ chainEvents = <<>>
    /\ walletAccount = WalletAddress
    /\ accountEvents = <<>>
    /\ notes = 0
    /\ provider = None
    /\ signer = None
    /\ account = <<>>
    /\ chainId = <<>>
    /\ lsAccount = <<>>
    /\ lsChainId = <<>>
    /\ abiText = AbiTextEmpty
    /\ contractAddress = <<>>
    /\ abi = <<>>
    /\ parseError = None
    /\ paramsState = <<>>
    /\ presets = <<>>
    /\ logs \in {numberedLog(n) : n \in LogFills}
    /\ startup = "done"
    /\ conn = IdleConn
    /\ chainTimers = [timer |-> 0, getSigner |-> 0]
    /\ accountTasks = <<>>
    /\ restore = IdleRestore
    /\ inv = [i \in Slots |-> IdleInv]
    /\ ops = 0
    /\ switches = 0

\* the gestures that write to the log, and the one that clears it
NextLog ==
    \/ \E text \in {AbiTextEmpty, AbiTextBroken} : setAbiText(text)
    \/ tryParseAbi
    \/ clearLogs
    \/ connectWallet
    \/ ConnectResolved
    \/ ConnectRejected
    \/ \E confirmed \in BOOLEAN : disconnect(confirmed)

SpecLog == InitLog /\ [][NextLog]_vars

(***************************************************************************)
(* The coercion of typed texts and the formatting of results, over inputs  *)
(* drawn from bounded sets: the page has been loaded with an authorized    *)
(* wallet, an interface parsed, an address entered and one text typed into *)
(* every parameter field; one click on a function's button is left.        *)
(***************************************************************************)
\* an interface with inputs of every kind: balanceOf(address) and name() are
\* views; mint takes integers named amount, count, wad, wads, totalValue, Qty
\* and quantity; setList takes uint256[], int8[2], address[] and tuple;
\* setText takes address, string, bytes, bytes32 and bool
AbiTextValues ==
    <<[k |-> "punct", c |-> "["],
      [k |-> "punct", c |-> "{"],
      [k |-> "str", v |-> <<"t","y","p","e">>],
      [k |-> "punct", c |-> ":"],
      [k |-> "str", v |-> <<"f","u","n","c","t","i","o","n">>],
      [k |-> "punct", c |-> ","],
      [k |-> "str", v |-> <<"n","a","m","e">>],
      [k |-> "punct", c |-> ":"],
      [k |-> "str", v |-> <<"b","a","l","a","n","c","e","O","f">>],
      [k |-> "punct", c |-> ","],
      [k |-> "str", v |-> <<"i","n","p","u","t","s">>],
      [k |-> "punct", c |-> ":"],
      [k |-> "punct", c |-> "["],
      [k |-> "punct", c |-> "{"],
      [k |-> "str", v |-> <<"n","a","m","e">>],
      [k |-> "punct", c |-> ":"],
      [k |-> "str", v |-> <<"o","w","n","e","r">>],
      [k |-> "punct", c |-> ","],
      [k |-> "str", v |-> <<"t","y","p","e">>],
      [k |-> "punct", c |-> ":"],
      [k |-> "str", v |-> <<"a","d","d","r","e","s","s">>],
      [k |-> "punct", c |-> "}"],
      [k |-> "punct", c |-> "]"],
      [k |-> "punct", c |-> ","],
      [k |-> "str", v |-> <<"s","t","a","t","e","M","u","t","a","b","i","l","i","t","y">>],
      [k |-> "punct", c |-> ":"],
      [k |-> "str", v |-> <<"v","i","e","w">>],
      [k |-> "punct", c |-> "}"],
      [k |-> "punct", c |-> ","],
      [k |-> "punct", c |-> "{"],
      [k |-> "str", v |-> <<"t","y","p","e">>],
      [k |-> "punct", c |-> ":"],
      [k |-> "str", v |-> <<"f","u","n","c","t","i","o","n">>],
      [k |-> "punct", c |-> ","],
      [k |-> "str", v |-> <<"n","a","m","e">>],
      [k |-> "punct", c |-> ":"],
      [k |-> "str", v |-> <<"n","a","m","e">>],
      [k |-> "punct", c |-> ","],
      [k |-> "str", v |-> <<"i","n","p","u","t","s">>],
      [k |-> "punct", c |-> ":"],
      [k |-> "punct", c |-> "["],
      [k |-> "punct", c |-> "]"],
      [k |-> "punct", c |-> ","],
      [k |-> "str", v |-> <<"s","t","a","t","e","M","u","t","a","b","i","l","i","t","y">>],
      [k |-> "punct", c |-> ":"],
      [k |-> "str", v |-> <<"v","i","e","w">>],
      [k |-> "punct", c |-> "}"],
      [k |-> "punct", c |-> ","],
      [k |-> "punct", c |-> "{"],
      [k |-> "str", v |-> <<"t","y","p","e">>],
      [k |-> "punct", c |-> ":"],
      [k |-> "str", v |-> <<"f","u","n","c","t","i","o","n">>],
      [k |-> "punct", c |-> ","],
      [k |-> "str", v |-> <<"n","a","m","e">>],
      [k |-> "punct", c |-> ":"],
      [k |-> "str", v |-> <<"m","i","n","t">>],
      [k |-> "punct", c |-> ","],
      [k |-> "str", v |-> <<"i","n","p","u","t","s">>],
      [k |-> "punct", c |-> ":"],
      [k |-> "punct", c |-> "["],
      [k |-> "punct", c |-> "{"],
      [k |-> "str", v |-> <<"n","a","m","e">>],
      [k |-> "punct", c |-> ":"],
      [k |-> "str", v |-> <<"a","m","o","u","n","t">>],
      [k |-> "punct", c |-> ","],
      [k |-> "str", v |-> <<"t","y","p","e">>],
      [k |-> "punct", c |-> ":"],
      [k |-> "str", v |-> <<"u","i","n","t","2","5","6">>],
      [k |-> "punct", c |-> "}"],
      [k |-> "punct", c |-> ","],
      [k |-> "punct", c |-> "{"],
      [k |-> "str", v |-> <<"n","a","m","e">>],
      [k |-> "punct", c |-> ":"],
      [k |-> "str", v |-> <<"c","o","u","n","t">>],
      [k |-> "punct", c |-> ","],
      [k |-> "str", v |-> <<"t","y","p","e">>],
      [k |-> "punct", c |-> ":"],
      [k |-> "str", v |-> <<"u","i","n","t","2","5","6">>],
      [k |-> "punct", c |-> "}"],
      [k |-> "punct", c |-> ","],
      [k |-> "punct", c |-> "{"],
      [k |-> "str", v |-> <<"n","a","m","e">>],
      [k |-> "punct", c |-> ":"],
      [k |-> "str", v |-> <<"w","a","d">>],
      [k |-> "punct", c |-> ","],
      [k |-> "str", v |-> <<"t","y","p","e">>],
      [k |-> "punct", c |-> ":"],
      [k |-> "str", v |-> <<"i","n","t","2","5","6">>],
      [k |-> "punct", c |-> "}"],
      [k |-> "punct", c |-> ","],
      [k |-> "punct", c |-> "{"],
      [k |-> "str", v |-> <<"n","a","m","e">>],
      [k |-> "punct", c |-> ":"],
      [k |-> "str", v |-> <<"w","a","d","s">>],
      [k |-> "punct", c |-> ","],
      [k |-> "str", v |-> <<"t","y","p","e">>],
      [k |-> "punct", c |-> ":"],
      [k |-> "str", v |-> <<"u","i","n","t","8">>],
      [k |-> "punct", c |-> "}"],
      [k |-> "punct", c |-> ","],
      [k |-> "punct", c |-> "{"],
      [k |-> "str", v |-> <<"n","a","m","e">>],
      [k |-> "punct", c |-> ":"],
      [k |-> "str", v |-> <<"t","o","t","a","l","V","a","l","u","e">>],
      [k |-> "punct", c |-> ","],
      [k |-> "str", v |-> <<"t","y","p","e">>],
      [k |-> "punct", c |-> ":"],
      [k |-> "str", v |-> <<"u","i","n","t","2","5","6">>],
      [k |-> "punct", c |-> "}"],
      [k |-> "punct", c |-> ","],
      [k |-> "punct", c |-> "{"],
      [k |-> "str", v |-> <<"n","a","m","e">>],
      [k |-> "punct", c |-> ":"],
      [k |-> "str", v |-> <<"Q","t","y">>],
      [k |-> "punct", c |-> ","],
      [k |-> "str", v |-> <<"t","y","p","e">>],
      [k |-> "punct", c |-> ":"],
      [k |-> "str", v |-> <<"u","i","n","t","1","6">>],
      [k |-> "punct", c |-> "}"],
      [k |-> "punct", c |-> ","],
      [k |-> "punct", c |-> "{"],
      [k |-> "str", v |-> <<"n","a","m","e">>],
      [k |-> "punct", c |-> ":"],
      [k |-> "str", v |-> <<"q","u","a","n","t","i","t","y">>],
      [k |-> "punct", c |-> ","],
      [k |-> "str", v |-> <<"t","y","p","e">>],
      [k |-> "punct", c |-> ":"],
      [k |-> "str", v |-> <<"i","n","t","6","4">>],
      [k |-> "punct", c |-> "}"],
      [k |-> "punct", c |-> "]"],
      [k |-> "punct", c |-> "}"],
      [k |-> "punct", c |-> ","],
      [k |-> "punct", c |-> "{"],
      [k |-> "str", v |-> <<"t","y","p","e">>],
      [k |-> "punct", c |-> ":"],
      [k |-> "str", v |-> <<"f","u","n","c","t","i","o","n">>],
      [k |-> "punct", c |-> ","],
      [k |-> "str", v |-> <<"n","a","m","e">>],
      [k |-> "punct", c |-> ":"],
      [k |-> "str", v |-> <<"s","e","t","L","i","s","t">>],
      [k |-> "punct", c |-> ","],
      [k |-> "str", v |-> <<"i","n","p","u","t","s">>],
      [k |-> "punct", c |-> ":"],
      [k |-> "punct", c |-> "["],
      [k |-> "punct", c |-> "{"],
      [k |-> "str", v |-> <<"n","a","m","e">>],
      [k |-> "punct", c |-> ":"],
      [k |-> "str", v |-> <<"a","m","o","u","n","t","s">>],
      [k |-> "punct", c |-> ","],
      [k |-> "str", v |-> <<"t","y","p","e">>],
      [k |-> "punct", c |-> ":"],
      [k |-> "str", v |-> <<"u","i","n","t","2","5","6","[","]">>],
      [k |-> "punct", c |-> "}"],
      [k |-> "punct", c |-> ","],
      [k |-> "punct", c |-> "{"],
      [k |-> "str", v |-> <<"n","a","m","e">>],
      [k |-> "punct", c |-> ":"],
      [k |-> "str", v |-> <<"p","a","i","r">>],
      [k |-> "punct", c |-> ","],
      [k |-> "str", v |-> <<"t","y","p","e">>],
      [k |-> "punct", c |-> ":"],
      [k |-> "str", v |-> <<"i","n","t","8","[","2","]">>],
      [k |-> "punct", c |-> "}"],
      [k |-> "punct", c |-> ","],
      [k |-> "punct", c |-> "{"],
      [k |-> "str", v |-> <<"n","a","m","e">>],
      [k |-> "punct", c |-> ":"],
      [k |-> "str", v |-> <<"o","w","n","e","r","s">>],
      [k |-> "punct", c |-> ","],
      [k |-> "str", v |-> <<"t","y","p","e">>],
      [k |-> "punct", c |-> ":"],
      [k |-> "str", v |-> <<"a","d","d","r","e","s","s","[","]">>],
      [k |-> "punct", c |-> "}"],
      [k |-> "punct", c |-> ","],
      [k |-> "punct", c |-> "{"],
      [k |-> "str", v |-> <<"n","a","m","e">>],
      [k |-> "punct", c |-> ":"],
      [k |-> "str", v |-> <<"c","o","n","f","i","g">>],
      [k |-> "punct", c |-> ","],
      [k |-> "str", v |-> <<"t","y","p","e">>],
      [k |-> "punct", c |-> ":"],
      [k |-> "str", v |-> <<"t","u","p","l","e">>],
      [k |-> "punct", c |-> "}"],
      [k |-> "punct", c |-> "]"],
      [k |-> "punct", c |-> "}"],
      [k |-> "punct", c |-> ","],
      [k |-> "punct", c |-> "{"],
      [k |-> "str", v |-> <<"t","y","p","e">>],
      [k |-> "punct", c |-> ":"],
      [k |-> "str", v |-> <<"f","u","n","c","t","i","o","n">>],
      [k |-> "punct", c |-> ","],
      [k |-> "str", v |-> <<"n","a","m","e">>],
      [k |-> "punct", c |-> ":"],
      [k |-> "str", v |-> <<"s","e","t","T","e","x","t">>],
      [k |-> "punct", c |-> ","],
      [k |-> "str", v |-> <<"i","n","p","u","t","s">>],
      [k |-> "punct", c |-> ":"],
      [k |-> "punct", c |-> "["],
      [k |-> "punct", c |-> "{"],
      [k |-> "str", v |-> <<"n","a","m","e">>],
      [k |-> "punct", c |-> ":"],
      [k |-> "str", v |-> <<"o","w","n","e","r">>],
      [k |-> "punct", c |-> ","],
      [k |-> "str", v |-> <<"t","y","p","e">>],
      [k |-> "punct", c |-> ":"],
      [k |-> "str", v |-> <<"a","d","d","r","e","s","s">>],
      [k |-> "punct", c |-> "}"],
      [k |-> "punct", c |-> ","],
      [k |-> "punct", c |-> "{"],
      [k |-> "str", v |-> <<"n","a","m","e">>],
      [k |-> "punct", c |-> ":"],
      [k |-> "str", v |-> <<"l","a","b","e","l">>],
      [k |-> "punct", c |-> ","],
      [k |-> "str", v |-> <<"t","y","p","e">>],
      [k |-> "punct", c |-> ":"],
      [k |-> "str", v |-> <<"s","t","r","i","n","g">>],
      [k |-> "punct", c |-> "}"],
      [k |-> "punct", c |-> ","],
      [k |-> "punct", c |-> "{"],
      [k |-> "str", v |-> <<"n","a","m","e">>],
      [k |-> "punct", c |-> ":"],
      [k |-> "str", v |-> <<"d","a","t","a">>],
      [k |-> "punct", c |-> ","],
      [k |-> "str", v |-> <<"t","y","p","e">>],
      [k |-> "punct", c |-> ":"],
      [k |-> "str", v |-> <<"b","y","t","e","s">>],
      [k |-> "punct", c |-> "}"],
      [k |-> "punct", c |-> ","],
      [k |-> "punct", c |-> "{"],
      [k |-> "str", v |-> <<"n","a","m","e">>],
      [k |-> "punct", c |-> ":"],
      [k |-> "str", v |-> <<"t","a","g">>],
      [k |-> "punct", c |-> ","],
      [k |-> "str", v |-> <<"t","y","p","e">>],
      [k |-> "punct", c |-> ":"],
      [k |-> "str", v |-> <<"b","y","t","e","s","3","2">>],
      [k |-> "punct", c |-> "}"],
      [k |-> "punct", c |-> ","],
      [k |-> "punct", c |-> "{"],
      [k |-> "str", v |-> <<"n","a","m","e">>],
      [k |-> "punct", c |-> ":"],
      [k |-> "str", v |-> <<"f","l","a","g">>],
      [k |-> "punct", c |-> ","],
      [k |-> "str", v |-> <<"t","y","p","e">>],
      [k |-> "punct", c |-> ":"],
      [k |-> "str", v |-> <<"b","o","o","l">>],
      [k |-> "punct", c |-> "}"],
      [k |-> "punct", c |-> "]"],
      [k |-> "punct", c |-> "}"],
      [k |-> "punct", c |-> "]"]>>

\* the texts typed into the parameter fields of that interface
ValueTexts ==
    { <<>>,
      <<" "," ">>,
      <<"1",".","5">>,
      <<"4",".","1">>,
      <<"1",".","1">>,
      <<"2","0","0","0","0","0","0">>,
      <<"9","9","9","9","9","9">>,
      <<"0">>,
      <<".">>,
      <<"a","b","c">>,
      <<"T","R","U","E">>,
      <<"1">>,
      <<"y","e","s">>,
      <<"n","o">>,
      <<"f","a","l","s","e">> }

\* the addresses entered: the USDT address as the preset writes it and in
\* lower case, and another contract's
ValueAddresses == { UsdtPresetAddress, UsdtAddressLower, LinkPresetAddress }

\* the fields of a catalog, each holding the text raw
filledWith(catalog, raw) ==
    LET keys == UNION { {paramKey(getFnKey(functions(catalog)[k]), j - 1) :
                            j \in 1..Len(listOf(member(functions(catalog)[k], KeyInputs)))} :
                        k \in 1..Len(functions(catalog)) }
    IN  [key \in keys |-> raw]

InitValues ==
    /\ ethereum = TRUE
    /\ walletChain = 1
    /\ walletAuthorized = TRUE
    /\ listening = registerListeners(NoListeners)
    /\ chainEvents = <<>>
    /\ walletAccount = WalletAddress
    /\ accountEvents = <<>>
    /\ notes = 0
    /\ provider = None
    /\ signer = None
    /\ account = WalletAddress
    /\ chainId = <<>>
    /\ lsAccount = <<>>
    /\ lsChainId = <<>>
    /\ abiText = AbiTextValues
    /\ abi = JSONparse(stripTrailingCommas(AbiTextValues)).v.v
    /\ parseError = None
    /\ contractAddress \in ValueAddresses
    /\ \E raw \in ValueTexts :
          paramsState = IF raw = <<>> THEN <<>> ELSE filledWith(abi, raw)
    /\ presets = <<>>
    /\ logs = <<MsgParsed>>
    /\ startup = "done"
    /\ conn = IdleConn
    /\ chainTimers = [timer |-> 0, getSigner |-> 0]
    /\ accountTasks = <<>>
    /\ restore = IdleRestore
    /\ inv = [i \in Slots |-> IdleInv]
    /\ ops = MaxOps - 1
    /\ switches = 0

\* the members of a receipt: a block number and a status that is a bigint
ReceiptMembers ==
    << <<<<"b","l","o","c","k","N","u","m","b","e","r">>, [t |-> "num", v |-> <<"7">>]>>,
       <<<<"s","t","a","t","u","s">>, [t |-> "bigint", v |-> <<"1">>]>> >>

\* what a read call returns in this specification: bigints below and above
\* 2^53, a string, a nested array, a big-number object, a plain object, an
\* object with no prototype, one whose toString throws and one with no
\* prototype that refers to itself
ValueResults ==
    { [t |-> "bigint", v |-> <<"2","0","0","0","0","0","0">>],
      [t |-> "bigint", v |-> <<"9","6","7","6","0","5","8","8","1","3","2","1","9","8","4","1","9">>],
      [t |-> "str", v |-> <<"o","k">>],
      [t |-> "arr", v |-> << [t |-> "bigint", v |-> <<"2","0","0","0","0","0","0">>],
                             [t |-> "arr", v |-> << [t |-> "str", v |-> <<"o","k">>] >>] >>],
      [t |-> "obj", v |-> <<>>, conv |-> "returns", str |-> <<"2","0","0","0","0","0","0">>,
       cyclic |-> FALSE],
      plainObject(ReceiptMembers),
      [t |-> "obj", v |-> ReceiptMembers, conv |-> "absent", str |-> <<>>,
       cyclic |-> FALSE],
      [t |-> "obj", v |-> ReceiptMembers, conv |-> "throws", str |-> <<>>,
       cyclic |-> FALSE],
      [t |-> "obj", v |-> ReceiptMembers, conv |-> "absent", str |-> <<>>,
       cyclic |-> TRUE] }

\* the steps of the invocation the click starts
NextValues ==
    \/ \E i \in Slots : \E k \in 1..Len(functions(abi)) : StartCall(i, functions(abi)[k])
    \/ \E i \in Slots : SignerResolved(i)
    \/ \E i \in Slots : \E res \in ValueResults : CallResolved(i, res)
    \/ \E i \in Slots : TxSubmitted(i)
    \/ \E i \in Slots : TxConfirmed(i)
    \/ \E i \in Slots : \E e \in Rejections : CallRejected(i, e)

SpecValues == InitValues /\ [][NextValues]_vars

\* the registration of the handlers: the mount effect, its interval, the
\* wallet losing subscriptions and changing network, and the handling of the
\* notifications it delivers
NextListeners ==
    \/ StartupTimer
    \/ StartupAccounts
    \/ ListenerCheck
    \/ \E lost \in SUBSET Events : SubscriptionLost(lost)
    \/ \E c \in Chains : WalletSwitchChain(c)
    \/ handleChainChanged
    \/ ChainTimerFire
    \/ ChainSignerSettled
    \/ \E accounts \in {<<>>, <<OtherAddress>>} : WalletAccountsChanged(accounts)
    \/ handleAccountsChanged
    \/ \E k \in DOMAIN accountTasks : AccountTaskStep(k) \/ AccountTaskRejected(k)

SpecListeners == Init /\ [][NextListeners]_vars

\* the timer of the mount effect fires, and so does its interval
SpecListenersFair ==
    SpecListeners /\ WF_vars(StartupTimer) /\ WF_vars(ListenerCheck)

\* the session as the page load and the wallet drive it, with no click on the
\* page: from a load that may find a saved session
NextSession ==
    \/ StartupTimer
    \/ StartupAccounts
    \/ RestoreTimer
    \/ RestoreResolved
    \/ RestoreRejected
    \/ RestoreTimeout
    \/ \E c \in Chains : WalletSwitchChain(c)
    \/ handleChainChanged
    \/ ChainTimerFire
    \/ ChainSignerSettled
    \/ \E accounts \in {<<>>, <<WalletAddress>>, <<OtherAddress>>} :
          WalletAccountsChanged(accounts)
    \/ handleAccountsChanged
    \/ \E k \in DOMAIN accountTasks : AccountTaskStep(k) \/ AccountTaskRejected(k)

SpecSession == InitSession /\ [][NextSession]_vars

\* a timer that was set fires
SpecSessionFair ==
    SpecSession /\ WF_vars(ChainTimerFire) /\ WF_vars(RestoreTimeout)

(***************************************************************************)
(* Properties of callFunction.                                             *)
(***************************************************************************)
\* an invocation that was started
Started(i) == inv[i].pc # "idle"

\* the states in which an invocation has ended
Terminal == {"success", "failed", "escaped"}

\* the step in which invocation i resumes after getSigner and makes its call
Resumes(i) == inv[i].pc = "getSigner" /\ inv'[i].call # None

\* C1: the handle a call is made with is the one this invocation derived from
\* the wallet after it started, bound to the network the wallet is on when it
\* was fetched, and never the provider or signer cached by the session
C1FreshHandle ==
    [][\A i \in Slots :
         Resumes(i) =>
           /\ inv'[i].call[1].runner.by = <<"callFunction", i>>
           /\ inv'[i].call[1].runner.net = walletChain
           /\ inv'[i].call[1].runner \in {inv'[i].handles[1].provider,
                                         inv'[i].handles[1].signer}
           /\ Some(inv'[i].call[1].runner) \notin {provider, signer}]_vars

\* C1: a call was made while the session's cached signer is one created for
\* another network than the call's handle
C1Witness ==
    \E i \in Slots :
        /\ inv[i].call # None
        /\ signer # None
        /\ signer[1].net # inv[i].call[1].runner.net
        /\ inv[i].call[1].runner.by = <<"callFunction", i>>

\* C2: an invocation of a view or pure entry never requests a signing handle
\* from the wallet
C2NoSignerForView ==
    \A i \in Slots :
        (Started(i) /\ isReadOnly(inv[i].fn)) => "getSigner" \notin inv[i].requested

\* C3: an invocation of an entry that is not view or pure reports success only
\* after the signing handle was requested, the transaction was sent through it
\* and the wait for one confirmation resolved; between submission and
\* confirmation no success is reported
C3WriteSuccessAfterConfirmation ==
    \A i \in Slots :
        (Started(i) /\ ~isReadOnly(inv[i].fn)) =>
          /\ (inv[i].pc = "success" \/ inv[i].toast.kind = "success") =>
               /\ inv[i].pc = "success"
               /\ {"getSigner", "send", "wait"} \subseteq inv[i].requested
               /\ inv[i].call # None
               /\ inv[i].call[1].runner = inv[i].handles[1].signer
               /\ inv[i].call[1].runner.kind = "signer"
               /\ inv[i].confirms = 1
          /\ inv[i].pc = "confirming" =>
               /\ inv[i].toast.kind = "sent"
               /\ inv[i].confirms = 1

\* C3: an entry without stateMutability was called and its transaction confirmed
C3Witness ==
    \E i \in Slots :
        /\ inv[i].pc = "success"
        /\ member(inv[i].fn, KeyStateMutability) = Undefined
        /\ "wait" \in inv[i].requested

\* the invocation record of a click that fails the precondition with message m
PreconditionFailure(rec, m) ==
    /\ rec.pc = "failed"
    /\ rec.toast = [kind |-> "generic", text |-> TxtCallFailed \o m]
    /\ rec.handles = None
    /\ rec.requested = {}
    /\ rec.call = None

\* C4: a click with no wallet provider, with no connected account or with an
\* empty contract address fails at once with the message of the first unmet
\* precondition, in that order; the messages differ, no handle is derived and
\* nothing is asked of the wallet or the contract
C4Preconditions ==
    [][\A i \in Slots :
         (inv[i].pc = "idle" /\ inv'[i].pc # "idle") =>
           /\ ~ethereum =>
                /\ PreconditionFailure(inv'[i], MsgNoProvider)
                /\ logs'[1] = TxtCallFailed \o MsgNoProvider
           /\ (ethereum /\ account = <<>>) =>
                /\ PreconditionFailure(inv'[i], MsgNotConnected)
                /\ logs'[1] = TxtCallFailed \o MsgNotConnected
           /\ (ethereum /\ account # <<>> /\ contractAddress = <<>>) =>
                /\ PreconditionFailure(inv'[i], MsgNoAddress)
                /\ logs'[1] = TxtCallFailed \o MsgNoAddress
           /\ (ethereum /\ account # <<>> /\ contractAddress # <<>>) =>
                inv'[i].pc = "getSigner"
           /\ Cardinality({MsgNoProvider, MsgNotConnected, MsgNoAddress}) = 3]_vars

\* C4: a click was made with a wallet, no account and no address: it failed as
\* not connected and nothing was asked of the wallet
C4Witness ==
    \E i \in Slots :
        /\ PreconditionFailure(inv[i], MsgNotConnected)
        /\ inv[i].contractAddress = <<>>
        /\ ethereum

\* C5: an invocation whose integer input is empty, blank or untouched fails
\* with the empty-value message before anything is asked of the wallet or of
\* the contract
C5EmptyValueBeforeAnyExternalCall ==
    \A i \in Slots :
        (/\ inv[i].pc = "failed"
         /\ inv[i].toast = [kind |-> "generic", text |-> TxtCallFailed \o MsgEmptyValue])
        => inv[i].requested = {}

\* C6: no step of an invocation, and so no invocation that ends in failure,
\* changes the connection state (address, chain id, cached handles, what is
\* persisted), the catalog, the parameter fields or the address field; the
\* step adds at most a new first entry to the log
C6FailureLeavesStateIntact ==
    [][\A i \in Slots :
         (inv'[i] # inv[i]) =>
           /\ UNCHANGED <<provider, signer, account, chainId, lsAccount, lsChainId>>
           /\ UNCHANGED <<abiText, abi, parseError>>
           /\ UNCHANGED <<paramsState, contractAddress>>
           /\ logs' # logs => logs' = pushLog(logs, logs'[1])
           /\ inv'[i].pc \in {"failed", "escaped"} =>
                logs' = pushLog(logs, logs'[1])]_vars

\* C6: an invocation was rejected by the wallet or the contract and failed
\* while the session holds cached handles and the catalog has entries
C6Witness ==
    \E i \in Slots :
        /\ inv[i].pc = "failed"
        /\ "getSigner" \in inv[i].requested
        /\ inv[i].toast.kind = "cancelled"
        /\ signer # None
        /\ account # <<>>
        /\ abi # <<>>

\* the categories a failure is reported under
Categories == {"cancelled", "insufficient", "network", "wrongchain", "generic"}

\* C7: every rejection, whatever the rejected value, is caught and given one
\* category; no error escapes callFunction
C7EveryRejectionClassified ==
    \A i \in Slots :
        /\ inv[i].pc # "escaped"
        /\ inv[i].pc = "failed" => inv[i].toast.kind \in Categories

\* C8 as amended: the step in which an invocation ends appends exactly one
\* log entry; a write whose transaction was sent has appended one more at
\* the submission and so two in total, every other invocation one in total
C8LogEntriesPerInvocation ==
    [][\A i \in Slots :
         (inv'[i] # inv[i]) =>
           /\ Len(logs') - Len(logs) = inv'[i].nlog - inv[i].nlog
           /\ inv'[i].pc \in Terminal =>
                /\ Len(logs') = Len(logs) + 1
                /\ inv'[i].nlog = IF "wait" \in inv'[i].requested THEN 2 ELSE 1]_vars

\* C8: a write failed after its transaction was sent, with two entries logged
C8Witness ==
    \E i \in Slots :
        /\ inv[i].pc = "failed"
        /\ "wait" \in inv[i].requested
        /\ inv[i].nlog = 2

\* C8 as stated: an invocation that has ended has appended exactly one log
\* entry in total
C8ExactlyOneEntry ==
    \A i \in Slots : inv[i].pc \in Terminal => inv[i].nlog = 1

\* C9: the call made when an invocation resumes after getSigner is made with
\* the contract address and the parameter fields as they are at that moment
C9ResumeUsesCurrentState ==
    [][\A i \in Slots :
         Resumes(i) =>
           LET current == coerceAll(inv[i].fn, paramsState, contractAddress)
           IN  /\ inv'[i].call[1].address = contractAddress
               /\ current.ok
               /\ inv'[i].call[1].args = current.v]_vars

\* C10: two invocations in flight do not wait for each other: a step of one
\* leaves the other as it is, an invocation that has ended ends once, and the
\* handles of the two are not the same
C10OverlappingIndependent ==
    [][\A i \in Slots : \A j \in Slots \ {i} :
         /\ (inv'[i] # inv[i]) => inv'[j] = inv[j]
         /\ inv[i].pc \in Terminal => inv'[i] = inv[i]
         /\ (inv'[i].handles # None /\ inv'[j].handles # None) =>
              /\ inv'[i].handles[1].provider # inv'[j].handles[1].provider
              /\ inv'[i].handles[1].signer # inv'[j].handles[1].signer
              /\ inv'[i].handles[1].signer.by = <<"callFunction", i>>]_vars

\* C10: the second invocation was started while the first was in flight and
\* failed before the first succeeded
C10Witness ==
    /\ MaxInv >= 2
    /\ inv[1].pc = "success"
    /\ inv[2].pc = "failed"
    /\ "getSigner" \in inv[2].requested
    /\ Len(logs) >= 2
    /\ startsWith(logs[2], TxtCallFailed)
    /\ ~startsWith(logs[1], TxtCallFailed)

\* the session is empty: no address, no chain id, no cached handle, and no
\* persisted slot
SessionEmpty ==
    /\ provider = None
    /\ signer = None
    /\ account = <<>>
    /\ chainId = <<>>
    /\ lsAccount = <<>>
    /\ lsChainId = <<>>

\* C11: a disconnect that the user confirms ends with the address, the chain
\* id and the cached provider and signer absent and both persisted slots
\* removed; one that the user declines leaves all six as they were
C11DisconnectEmptiesSession ==
    [][/\ disconnect(TRUE) => SessionEmpty'
       /\ disconnect(FALSE) => UNCHANGED sessionVars]_vars

\* C11: a session that connectWallet had set up and persisted was disconnected
C11Witness ==
    /\ Len(logs) >= 2
    /\ logs[1] = MsgDisconnected
    /\ logs[2] = TxtConnected \o WalletAddress
    /\ conn.pc = "idle"
    /\ SessionEmpty

\* C12: the address and the chain id change only in a step of connectWallet,
\* of disconnect, of the handling of an accountsChanged notification, of the
\* handling of a chainChanged notification or of the session restore; with no
\* persisted session they stay empty until one of the first four occurs
C12OnlyFiveMutators ==
    [][(account' # account \/ chainId' # chainId) =>
          \/ ConnectResolved
          \/ \E confirmed \in BOOLEAN : disconnect(confirmed)
          \/ handleAccountsChanged
          \/ \E k \in DOMAIN accountTasks : AccountTaskStep(k)
          \/ handleChainChanged
          \/ RestoreResolved]_vars

\* C13: when the silent restore at startup finds no authorized account, or
\* one of its steps fails, the attempt is abandoned and both persisted slots
\* are absent once it has ended
C13AbandonedRestoreErasesSlots ==
    [][(/\ restore.pc \in {"ethAccounts", "getSigner", "getNetwork"}
        /\ restore'.pc \in {"abandoned", "failed"}) =>
          (lsAccount' = <<>> /\ lsChainId' = <<>>)]_vars

\* C14: the handling of an accountsChanged notification that carries an empty
\* list ends with the address, the chain id and the cached provider and signer
\* absent and both persisted slots absent
C14EmptyListDisconnects ==
    [][(handleAccountsChanged /\ Head(accountEvents) = <<>>) => SessionEmpty']_vars

\* C14: the session that the restore had set up was emptied when the wallet
\* withdrew the page's authorization
C14Witness ==
    /\ restore.pc = "restored"
    /\ logs # <<>>
    /\ logs[1] = TxtRestored \o WalletAddress
    /\ ~walletAuthorized
    /\ accountEvents = <<>>
    /\ SessionEmpty

\* every change of account in the wallet was notified with a non-empty list,
\* and every notification has been handled to its end
AllRefreshed ==
    /\ accountEvents = <<>>
    /\ accountTasks # <<>>
    /\ Len(accountTasks) = notes
    /\ \A k \in DOMAIN accountTasks : accountTasks[k].pc = "done"

\* C15: once the handling of the accountsChanged notifications with a
\* non-empty list has completed, the address is the first entry of the last
\* notified list and the chain id is the wallet's current one, and both are
\* persisted: the state is that of the last notification, also when the
\* handling of an earlier one is the last to finish (no restore in this load)
C15LastNotificationWins ==
    [][(/\ restore.pc = "idle"
        /\ \E k \in DOMAIN accountTasks :
              accountTasks[k].pc = "getNetwork" /\ accountTasks'[k].pc = "done"
        /\ AllRefreshed') =>
          LET last == accountTasks'[Len(accountTasks')].accounts[1]
          IN  /\ account' = last
              /\ lsAccount' = last
              /\ chainId' = hexChainId(walletChain')
              /\ lsChainId' = hexChainId(walletChain')]_vars

\* C16: the handling of a chainChanged notification with chain id c ends with
\* the chain id c in the state and in the wallet_chainId slot and with a
\* refresh of the signer scheduled; the refresh then asks for the signer, and
\* a signer it caches is bound to the network the wallet is on
C16ChainChangeAdopted ==
    /\ [][(handleChainChanged =>
              /\ chainId' = Head(chainEvents)
              /\ lsChainId' = Head(chainEvents)
              /\ chainTimers'.timer = chainTimers.timer + 1)
          /\
          ((ChainSignerSettled /\ signer' # signer) =>
              /\ signer' = Some(signerHandle(walletChain,
                                             <<"handleChainChanged", 0>>))
              /\ provider' = Some(providerHandle(walletChain,
                                                 <<"handleChainChanged", 0>>)))]_vars
    /\ (chainTimers.timer > 0) ~> (chainTimers.getSigner > 0)

\* C16: the wallet went to the other network, the notification was handled
\* and the refresh cached a signer of that network
C16Witness ==
    /\ walletChain = 56
    /\ chainEvents = <<>>
    /\ chainId = hexChainId(56)
    /\ lsChainId = hexChainId(56)
    /\ chainTimers = [timer |-> 0, getSigner |-> 0]
    /\ signer = Some(signerHandle(56, <<"handleChainChanged", 0>>))

\* C17: when connectWallet succeeds, the state holds the address the wallet
\* granted and the chain id the wallet is on, and the two persisted slots hold
\* these same two values
C17ConnectCapturesAndPersists ==
    [][(ConnectResolved /\ conn.pc = "getNetwork") =>
          /\ account' = conn.addr
          /\ chainId' = hexChainId(walletChain')
          /\ lsAccount' = account'
          /\ lsChainId' = chainId']_vars

\* C18: a parse that succeeds ends with the catalog being the sequence parsed
\* from the text, whatever the catalog was before, and with no parse error
C18ParseReplacesCatalog ==
    [][(tryParseAbi /\ logs'[1] = MsgParsed) =>
          /\ abi' = JSONparse(stripTrailingCommas(abiText)).v.v
          /\ parseError' = None]_vars

\* C18: the token interface was parsed and one of its fields filled in, then
\* the one-function text was parsed: the catalog is that one function
C18Witness ==
    /\ abiText = AbiTextOne
    /\ Len(logs) >= 2
    /\ logs[1] = MsgParsed
    /\ \E key \in DOMAIN paramsState : startsWith(key, TxtBalance)
    /\ Len(abi) = 1
    /\ getFnKey(abi[1]) = <<"f", "(", ")">>
    /\ parseError = None

\* C19: a parse succeeds exactly when the text, with every comma directly
\* before a closing bracket or brace removed, is well-formed and its top-level
\* value is an array; every other text fails with the message of the error as
\* the parse error.  The one-function text with trailing commas gives a
\* catalog of one entry named f; the text {not an array} fails
C19ParseOutcome ==
    [][tryParseAbi =>
          LET parsed == JSONparse(stripTrailingCommas(abiText))
          IN  /\ (parseError' = None) <=> (parsed.ok /\ parsed.v.t = "arr")
              /\ (parseError' # None) =>
                    /\ parseError' = Some(IF parsed.ok THEN MsgNotArray
                                          ELSE MsgSyntaxError)
                    /\ logs'[1] = TxtParseFailed \o parseError'[1]
                    /\ abi' = <<>>
              /\ (abiText = AbiTextOne) =>
                    /\ ~JSONparse(abiText).ok
                    /\ parseError' = None
                    /\ Len(abi') = 1
                    /\ textOf(member(abi'[1], KeyName)) = <<"f">>
              /\ (abiText = AbiTextToken) =>
                    /\ ~JSONparse(abiText).ok
                    /\ parseError' = None
              /\ (abiText = AbiTextNotArray) => parseError' = Some(MsgSyntaxError)
              /\ (abiText = AbiTextBroken) => parseError' = Some(MsgSyntaxError)
              /\ (abiText = AbiTextObject) => parseError' = Some(MsgNotArray)]_vars

\* C19: the one-function text was parsed, then {not an array} was rejected
C19Witness ==
    /\ abiText = AbiTextNotArray
    /\ parseError = Some(MsgSyntaxError)
    /\ abi = <<>>
    /\ Len(logs) = 2
    /\ logs[1] = TxtParseFailed \o MsgSyntaxError
    /\ logs[2] = MsgParsed

\* the types of the inputs of a catalog entry, in declared order
typesOf(fn) ==
    LET inputs == listOf(member(fn, KeyInputs))
    IN  [k \in 1..Len(inputs) |-> textOf(member(inputs[k], KeyType))]

\* C20: the key of a function entry is its name, "(", its input types joined
\* by commas, and ")", an absent name read as the empty text and an absent
\* input list as the empty list (an entry with neither has the key "()"); two
\* entries of the same name and different input types have different keys and
\* no parameter field key in common
C20FunctionKey ==
    /\ \A j \in 1..Len(functions(abi)) :
          LET fn == functions(abi)[j]
          IN  /\ getFnKey(fn) = textOf(member(fn, KeyName)) \o <<"(">> \o
                                join(typesOf(fn)) \o <<")">>
              /\ (member(fn, KeyName) = Undefined /\ member(fn, KeyInputs) = Undefined)
                    => getFnKey(fn) = <<"(", ")">>
    /\ \A j \in 1..Len(functions(abi)) : \A k \in 1..Len(functions(abi)) :
          LET fj == functions(abi)[j]
              fk == functions(abi)[k]
          IN  (/\ textOf(member(fj, KeyName)) = textOf(member(fk, KeyName))
               /\ typesOf(fj) # typesOf(fk)) =>
                 /\ getFnKey(fj) # getFnKey(fk)
                 /\ \A a \in 0..MaxOps : \A b \in 0..MaxOps :
                       paramKey(getFnKey(fj), a) # paramKey(getFnKey(fk), b)
    /\ (abi = JSONparse(AbiTextOverloads).v.v) =>
          [j \in 1..4 |-> getFnKey(abi[j])] =
             << <<"f","(","u","i","n","t","2","5","6",")">>,
                <<"f","(","a","d","d","r","e","s","s",")">>,
                <<"f","(",")">>,
                <<"(",")">> >>

\* C20: the catalog has the two functions f, and a field of each was filled in
C20Witness ==
    /\ abi = JSONparse(AbiTextOverloads).v.v
    /\ Len(functions(abi)) = 4
    /\ DOMAIN paramsState = { <<"f","(","u","i","n","t","2","5","6",")","#","0">>,
                              <<"f","(","a","d","d","r","e","s","s",")","#","0">> }

\* C21: of two function entries with the same name and the same input types
\* the catalog keeps only the last as the callable entry of their key: no two
\* callable entries have one key
C21OneEntryPerKey ==
    \A j \in 1..Len(functions(abi)) : \A k \in 1..Len(functions(abi)) :
        j # k => getFnKey(functions(abi)[j]) # getFnKey(functions(abi)[k])


\* floor(x * 10^d) in exact decimal arithmetic, as a base-10 text
exactFloorScaled(x, d) ==
    LET fpad == x.fp \o zeros(d)
        kept == SubSeq(fpad, 1, d)
        lost == SubSeq(fpad, d + 1, Len(fpad))
        mag0 == stripZeros(x.ip \o kept)
        mag  == IF x.neg /\ ~isZeroDigits(lost) THEN incDigits(mag0) ELSE mag0
    IN  IF mag = <<>> THEN <<"0">>
        ELSE IF x.neg THEN <<"-">> \o mag
        ELSE mag

\* the raw text of an amount qualifies for scaling: it has a decimal point or
\* is a number strictly between 0 and 1,000,000
qualifies(raw) ==
    \/ includes(raw, <<".">>)
    \/ (isPositive(parseFloat(raw)) /\ lessThanPow10(parseFloat(raw), 6))

\* the inputs of the function an invocation calls, and the text of input k
inputsOf(rec) == listOf(member(rec.fn, KeyInputs))

typedInto(rec, k) == rawOf(rec.paramsState, paramKey(getFnKey(rec.fn), k - 1))

\* a type tag names an integer type: uint or int and a width in digits
isIntegerType(type) ==
    \E n \in {Len(TxtUint), Len(TxtInt)} :
        /\ Len(type) >= n
        /\ SubSeq(type, 1, n) \in {TxtUint, TxtInt}
        /\ \A k \in (n + 1)..Len(type) : isDigit(type[k])

\* C22: the argument made of an integer-typed, amount-named input whose text
\* is a quantity q that qualifies for scaling is the base-10 text of
\* floor(q * 10^d), exactly, with d = 6 on the USDT address in any case of
\* letters and d = 18 on any other address
C22ExactScaling ==
    \A i \in Slots : inv[i].call # None =>
        \A k \in 1..Len(inputsOf(inv[i])) :
            (/\ isIntegerType(textOf(member(inputsOf(inv[i])[k], KeyType)))
             /\ isAmountParam(textOf(member(inputsOf(inv[i])[k], KeyName)))
             /\ qualifies(typedInto(inv[i], k))
             /\ ~parseFloat(typedInto(inv[i], k)).nan)
            => inv[i].call[1].args[k] =
                 exactFloorScaled(parseFloat(typedInto(inv[i], k)),
                     IF toLowerCase(inv[i].contractAddress) = toLowerCase(UsdtPresetAddress)
                     THEN 6 ELSE 18)


\* a parameter name has one of the keywords of an amount
namedAmount(name) ==
    \/ \E w \in {TxtAmount, TxtValue, TxtQty, TxtQuantity} : includes(toLowerCase(name), w)
    \/ toLowerCase(name) = TxtWad

\* C23: once the inputs of an invocation are coerced, a non-blank text typed
\* for an integer-typed input is rescaled when the input's name has a keyword
\* and the text qualifies, and in every other case is the argument unchanged
C23ScalingRule ==
    \A i \in Slots : inv[i].handles # None =>
        \A k \in 1..Len(inputsOf(inv[i])) :
            (/\ isIntegerType(textOf(member(inputsOf(inv[i])[k], KeyType)))
             /\ trim(typedInto(inv[i], k)) # <<>>)
            => IF /\ namedAmount(textOf(member(inputsOf(inv[i])[k], KeyName)))
                  /\ qualifies(typedInto(inv[i], k))
               THEN /\ inv[i].call # None
                    /\ inv[i].call[1].args[k] =
                         floorScaled(parseFloat(typedInto(inv[i], k)),
                                     getDecimals(inv[i].contractAddress))
               ELSE inv[i].call # None => inv[i].call[1].args[k] = typedInto(inv[i], k)


\* a type tag names an array or a structured type
isArrayOrStructured(type) ==
    includes(type, <<"[">>) \/ startsWith(type, <<"t","u","p","l","e">>)

\* C24: the coercion of inputs of array and structured types never fails and
\* forwards each text unchanged: an invocation of a function with only such
\* inputs makes its call, with the texts typed as its arguments
C24OpaqueTypesForwarded ==
    \A i \in Slots :
        (/\ inv[i].handles # None
         /\ inputsOf(inv[i]) # <<>>
         /\ \A k \in 1..Len(inputsOf(inv[i])) :
               isArrayOrStructured(textOf(member(inputsOf(inv[i])[k], KeyType))))
        => /\ inv[i].call # None
           /\ \A k \in 1..Len(inputsOf(inv[i])) :
                 inv[i].call[1].args[k] = typedInto(inv[i], k)


\* a type tag names a bool, an address, a string or a byte type
isPlainType(type) ==
    \/ type \in {TxtBool, TxtAddress, TxtString}
    \/ /\ startsWith(type, TxtBytes)
       /\ \A k \in (Len(TxtBytes) + 1)..Len(type) : isDigit(type[k])

\* C25: the coercion of bool, address, string and byte inputs never fails: an
\* invocation of a function with only such inputs makes its call, a bool
\* argument being true exactly for the texts true, 1 and yes in any case of
\* letters and every other argument the text typed
C25PlainTypes ==
    \A i \in Slots :
        (/\ inv[i].handles # None
         /\ \A k \in 1..Len(inputsOf(inv[i])) :
               isPlainType(textOf(member(inputsOf(inv[i])[k], KeyType))))
        => /\ inv[i].call # None
           /\ \A k \in 1..Len(inputsOf(inv[i])) :
                 inv[i].call[1].args[k] =
                    IF textOf(member(inputsOf(inv[i])[k], KeyType)) = TxtBool
                    THEN toLowerCase(typedInto(inv[i], k)) \in
                            {<<"t","r","u","e">>, <<"1">>, <<"y","e","s">>}
                    ELSE typedInto(inv[i], k)

\* a call of setText is made with TRUE typed into its fields: the flag is true
\* and the address, the string and the bytes are the text
C25Witness ==
    \E i \in Slots :
        /\ inv[i].call # None
        /\ Len(inputsOf(inv[i])) = 5
        /\ typedInto(inv[i], 5) = <<"T","R","U","E">>
        /\ inv[i].call[1].args =
              << <<"T","R","U","E">>, <<"T","R","U","E">>, <<"T","R","U","E">>,
                 <<"T","R","U","E">>, TRUE >>


\* v / 10^d in exact decimal arithmetic for the digits of a natural number v,
\* rounded half up to six fraction digits, with no trailing zeros and the
\* thousands grouped
exactScaled(digits, d) ==
    LET all   == zeros((d + 1) - Min(d + 1, Len(digits))) \o digits
        drop  == IF d > 6 THEN d - 6 ELSE 0
        kept  == SubSeq(all, 1, Len(all) - drop)
        up    == drop > 0 /\ digitVal(all[Len(kept) + 1]) >= 5
        r     == IF up THEN incDigits(kept) ELSE kept
        fl    == d - drop
        ip    == stripZeros(SubSeq(r, 1, Len(r) - fl))
        fp    == stripTrailingZeros(SubSeq(r, Len(r) - fl + 1, Len(r)))
    IN  (IF ip = <<>> THEN <<"0">> ELSE groupThousands(ip))
        \o (IF fp = <<>> THEN <<>> ELSE <<".">> \o fp)

\* C26: a bigint v returned by a function whose name contains balance or
\* supply in any case of letters is logged as v / 10^d with at most six
\* fraction digits and grouped thousands, followed by " (raw: v)", d being 6
\* on the USDT address and 18 elsewhere; returned by any other function it is
\* logged as the decimal text of v
C26BalanceFormatting ==
    [][\A i \in Slots : \A res \in ValueResults :
          (res.t = "bigint" /\ CallResolved(i, res))
          => logs' = pushLog(logs,
                TxtFunction \o textOf(member(inv[i].fn, KeyName)) \o TxtResult
                \o (IF \E w \in {<<"b","a","l","a","n","c","e">>, <<"s","u","p","p","l","y">>} :
                          includes(toLowerCase(textOf(member(inv[i].fn, KeyName))), w)
                    THEN exactScaled(res.v,
                            IF toLowerCase(inv[i].contractAddress) = toLowerCase(UsdtPresetAddress)
                            THEN 6 ELSE 18)
                         \o <<" ","(","r","a","w",":"," ">> \o res.v \o <<")">>
                    ELSE res.v))]_vars


\* C27: a plain object with the members of a receipt, returned by a function
\* whose name has neither balance nor supply, is logged as the serialization
\* of its members, the bigint among them as its decimal string:
\* {"blockNumber":7,"status":"1"}
C27ReceiptSerialized ==
    [][\A i \in Slots :
          (/\ ~isBalanceFn(textOf(member(inv[i].fn, KeyName)))
           /\ CallResolved(i, plainObject(ReceiptMembers)))
          => logs' = pushLog(logs,
                TxtFunction \o textOf(member(inv[i].fn, KeyName)) \o TxtResult
                \o <<"{","\"","b","l","o","c","k","N","u","m","b","e","r","\"",":","7",",","\"","s","t","a","t","u","s","\"",":","\"","1","\"","}">>)]_vars


\* C28: the formatter never throws: whatever value a read call returns, an
\* object whose conversion to a string or whose serialization fails included,
\* the invocation succeeds and its result is logged
C28FormatterNeverThrows ==
    [][\A i \in Slots : \A res \in ValueResults :
          CallResolved(i, res)
          => /\ inv'[i].pc = "success"
             /\ startsWith(logs'[1], TxtFunction)]_vars


C31ListenersSelfHealing ==
    /\ [](\A ev \in Events : listening[ev] <= 1)
    /\ \A ev \in Events :
          (startup # "timer" /\ ethereum /\ listening[ev] = 0) ~> (listening[ev] > 0)


\* C32: the log never holds more than 200 entries; a step that changes it
\* either puts one new entry before the entries there were, dropping the
\* oldest when there were 200, or is the click that clears it
C32LogBounded ==
    [][/\ Len(logs') <= LogCap
       /\ (logs' # logs /\ ~clearLogs)
             => /\ Len(logs') = Min(LogCap, Len(logs) + 1)
                /\ \A j \in 2..Len(logs') : logs'[j] = logs[j - 1]]_vars

\* a full log has taken a new entry: the oldest entry, numbered 1, is gone and
\* the entry numbered 2 is the oldest now
C32Witness ==
    /\ Len(logs) = LogCap
    /\ logs[LogCap] = natToText(2)
    /\ logs[2] = natToText(LogCap)
    /\ logs[1] = MsgParsed


\* the step is the typing of a value into field f
touches(f) == \E value \in RawTexts : updateParam(f[1], f[2], value)

\* C33: a key comes into the parameter map only by typing into its field; typing
\* into a field changes that key and no other; and an invocation coerces an
\* input whose key is absent from the empty text
C33ParamFieldMap ==
    [][/\ \A key \in DOMAIN paramsState' :
             key \notin DOMAIN paramsState
             => \E f \in Fields : touches(f) /\ key = paramKey(f[1], f[2])
       /\ \A f \in Fields :
             touches(f)
             => /\ DOMAIN paramsState' = DOMAIN paramsState \cup {paramKey(f[1], f[2])}
                /\ \A key \in DOMAIN paramsState :
                      key # paramKey(f[1], f[2]) => paramsState'[key] = paramsState[key]
       /\ \A i \in Slots :
             (inv[i].pc = "getSigner" /\ inv'[i].call # None)
             => \A k \in 1..Len(inputsOf(inv[i])) :
                   paramKey(getFnKey(inv[i].fn), k - 1) \notin DOMAIN inv[i].paramsState
                   => inv'[i].call[1].args[k]
                        = parseParamValue(textOf(member(inputsOf(inv[i])[k], KeyType)),
                                          <<>>,
                                          textOf(member(inputsOf(inv[i])[k], KeyName)),
                                          inv[i].contractAddress).v]_vars


\* no operation on the session is in flight: the mount effect has had its
\* answer, no connect, restore or refresh awaits the wallet, and no
\* notification or timer is pending
SessionQuiet ==
    /\ startup = "done"
    /\ conn.pc = "idle"
    /\ chainEvents = <<>>
    /\ accountEvents = <<>>
    /\ chainTimers.timer = 0
    /\ chainTimers.getSigner = 0
    /\ \A k \in DOMAIN accountTasks :
          accountTasks[k].pc \notin {"timer", "getSigner", "getNetwork"}
    /\ restore.pc \notin {"timer", "ethAccounts", "getSigner", "getNetwork"}

\* C34: with no session operation in flight, an address comes with a chain id
\* and a cached signer, and no address with no chain id and no cached handle
C34ConnectionComplete ==
    SessionQuiet
    => /\ account # <<>> => (chainId # <<>> /\ signer # None)
       /\ account = <<>> => (chainId = <<>> /\ provider = None /\ signer = None)


\* C35: with a wallet installed and no session operation in flight,
\* wallet_account holds the address and wallet_chainId the chain id, each
\* absent when the other is
C35PersistedMirrorsState ==
    (ethereum /\ SessionQuiet) => (lsAccount = account /\ lsChainId = chainId)


\* C36: a cleared session is not written to by a continuation that was in
\* flight when it was cleared: connectWallet and the account refresh set the
\* address before their last await, so one of them that resumes from that
\* await with the session empty was in flight when the session was cleared,
\* and it leaves the session empty
C36ClearedStaysCleared ==
    [][SessionEmpty
       => /\ (ConnectResolved /\ conn.pc = "getNetwork") => SessionEmpty'
          /\ \A k \in DOMAIN accountTasks :
                (AccountTaskStep(k) /\ accountTasks[k].pc = "getNetwork")
                => SessionEmpty']_vars


\* C37: a connectWallet that fails logs one failure entry and leaves the
\* session as it was before the click: the attempt began with no address (the
\* button is disabled otherwise), so the address and the handles it captured
\* are not in the state when it has failed
C37ConnectAllOrNothing ==
    [][ConnectRejected
       => /\ UNCHANGED sessionVars
          /\ ~(/\ conn.addr # <<>>
               /\ account' = conn.addr
               /\ provider' = Some(providerHandle(conn.net, <<"connectWallet", 0>>))
               /\ signer' = Some(signerHandle(conn.net, <<"connectWallet", 0>>)))
          /\ logs' = pushLog(logs, TxtConnectionFailed \o TxtUserRejected)]_vars


\* C38: an invocation starts with an address present, so one that resumes
\* from getSigner with the address absent was overtaken by a disconnect: it
\* makes no call and no transaction and ends as failed
C38NoCallAfterDisconnect ==
    [][\A i \in Slots :
          (inv[i].pc = "getSigner" /\ account = <<>> /\ SignerResolved(i))
          => (inv'[i].call = None /\ inv'[i].pc = "failed")]_vars


\* C39: in every state a present parse error goes with an empty catalog; a
\* parse that fails empties the catalog and records the error, and a parse
\* that succeeds clears the error
C39ErrorExcludesCatalog ==
    /\ [](parseError # None => abi = <<>>)
    /\ [][tryParseAbi =>
            IF logs'[1] = MsgParsed
            THEN parseError' = None
            ELSE parseError' # None /\ abi' = <<>>]_vars

\* C39: the token interface was parsed, then the text {"type":"function"}
\* was rejected: the error is recorded and the catalog is empty
C39Witness ==
    /\ abiText = AbiTextObject
    /\ parseError = Some(MsgNotArray)
    /\ abi = <<>>
    /\ Len(logs) = 2
    /\ logs[1] = TxtParseFailed \o MsgNotArray
    /\ logs[2] = MsgParsed
    /\ \E key \in DOMAIN paramsState : startsWith(key, TxtBalance)

=============================================================================
